---- MODULE Spec2Model ----
(***************************************************************************)
(* A model of the tree-walking Lox interpreter: the environment frames,    *)
(* the resolver's scope stack and resolution table, and the evaluator.     *)
(*                                                                         *)
(* Three specifications share the variables:                               *)
(*   SpecEnv  the operations of Environment on a heap of shared frames     *)
(*   SpecRes  the operations of Resolver on its scope stack                *)
(*   Spec     the run pipeline: resolve a program, then interpret it       *)
(***************************************************************************)
EXTENDS Integers, Sequences, FiniteSets, TLC

VARIABLES
    heap,       \* the frames (Rc<RefCell<Environment>>), by allocation order
    envOp,      \* SpecEnv: the last Environment operation and its result
    scopes,     \* Resolver.scopes
    locals,     \* Interpreter.locals, the resolution table
    resOp,      \* SpecRes: the last Resolver operation
    program,    \* Spec: the statements handed to resolve and interpret_stmt
    pc,         \* Spec: the position in the run pipeline
    index,      \* Spec: the next statement of interpret_stmt's loop
    output,     \* Spec: the values printed so far
    had_runtime_error,  \* Interpreter.had_runtime_error
    trace,      \* Spec: what the last executed statement did (calls, blocks, lookups)
    tokens,     \* SpecParse: the tokens handed to Parser::new
    parseOp,    \* SpecParse: the last Parser operation and its result
    valueOp,    \* SpecValue: the operands and the last Value operation
    scanOp      \* SpecScan: the source and what scan_tokens made of it

vars == <<heap, envOp, scopes, locals, resOp, program, pc, index, output,
          had_runtime_error, trace, tokens, parseOp, valueOp, scanOp>>

-----------------------------------------------------------------------------
(* Bounds *)

MaxFrames == 3
MaxDistance == 3
MaxScopes == 2
MaxProgram == 2
MaxLoop == 3

-----------------------------------------------------------------------------
(* Values: value/mod.rs, value/callable.rs *)

Nil == [t |-> "Nil"]
Number(n) == [t |-> "Number", n |-> n]
Boolean(b) == [t |-> "Boolean", b |-> b]
String(s) == [t |-> "String", s |-> s]
Function(declaration, closure) ==
    [t |-> "Function", declaration |-> declaration, closure |-> closure]
BuiltIn(name, arity) == [t |-> "BuiltIn", name |-> name, arity |-> arity]

\* Option<Value>::None, the content of a declared, uninitialized binding
None == [t |-> "None"]

Ok(v) == [ok |-> TRUE, v |-> v]
Err(e) == [ok |-> FALSE, err |-> e]

UndefinedVariable(name) == [kind |-> "UndefinedVariable", name |-> name]
AncestorNotFound(distance, name) ==
    [kind |-> "AncestorNotFound", distance |-> distance, name |-> name]

-----------------------------------------------------------------------------
(* Environment: interpreter/environment/mod.rs                             *)
(* A frame is [values, enclosing]; enclosing = 0 is Option::None.          *)
(* A reference to an environment is either the shared frame itself or a    *)
(* private clone of it (Rc::new(RefCell::new(self.clone()))).              *)

EmptyValues == [n \in {} |-> None]
EmptyScope == [n \in {} |-> FALSE]
EmptyLocals == [n \in {} |-> 0]

Shared(id) == [clone |-> FALSE, id |-> id]
Clone(id) == [clone |-> TRUE, id |-> id]

New(H, enclosing) == Append(H, [values |-> EmptyValues, enclosing |-> enclosing])

\* A define that writes the outermost frame instead of the current one
DefineOutermost(H, e, name, value) ==
    [H EXCEPT ![1].values = (name :> value) @@ @]

Define(H, e, name, value) ==
    [H EXCEPT ![e].values = (name :> value) @@ @]

RECURSIVE Get(_, _, _)
Get(H, e, name) ==
    IF name \in DOMAIN H[e.id].values
    THEN IF H[e.id].values[name] # None
         THEN Ok(H[e.id].values[name])
         ELSE Ok(Nil)
    ELSE IF H[e.id].enclosing # 0
         THEN Get(H, Shared(H[e.id].enclosing), name)
         ELSE Err(UndefinedVariable(name))

\* A write to a clone changes the clone only; the clone's enclosing is shared.
RECURSIVE Assign(_, _, _, _)
Assign(H, e, name, value) ==
    IF name \in DOMAIN H[e.id].values
    THEN [heap |-> IF e.clone THEN H ELSE [H EXCEPT ![e.id].values[name] = value],
          res |-> Ok(Nil)]
    ELSE IF H[e.id].enclosing # 0
         THEN Assign(H, Shared(H[e.id].enclosing), name, value)
         ELSE [heap |-> H, res |-> Err(UndefinedVariable(name))]

RECURSIVE AncestorLoop(_, _, _)
AncestorLoop(H, env, n) ==
    IF n = 0 THEN env
    ELSE IF H[env.id].enclosing # 0
         THEN AncestorLoop(H, Shared(H[env.id].enclosing), n - 1)
         ELSE AncestorLoop(H, env, n - 1)

Ancestor(H, e, distance) ==
    [some |-> TRUE, env |-> AncestorLoop(H, Clone(e), distance)]

AssignAt(H, e, distance, name, value) ==
    LET a == Ancestor(H, e, distance)
    IN  IF a.some
        THEN Assign(H, a.env, name, value)
        ELSE [heap |-> H, res |-> Ok(Nil)]

GetAt(H, e, distance, name) ==
    LET a == Ancestor(H, e, distance)
    IN  IF a.some
        THEN Get(H, a.env, name)
        ELSE Err(AncestorNotFound(distance, name))

\* The number of enclosing frames of frame e
RECURSIVE Depth(_, _)
Depth(H, e) == IF H[e].enclosing = 0 THEN 0 ELSE 1 + Depth(H, H[e].enclosing)

\* The frame d hops up from e (d <= Depth(H, e))
RECURSIVE Hop(_, _, _)
Hop(H, e, d) == IF d = 0 THEN e ELSE Hop(H, H[e].enclosing, d - 1)

-----------------------------------------------------------------------------
(* SpecEnv: the Environment operations as actions *)

EnvNames == {"a"}
EnvValues == {Number(1), Number(2)}
NoOp == [op |-> "none"]

EnvInitHeap == <<[values |-> EmptyValues, enclosing |-> 0]>>

EnvNew ==
    /\ Len(heap) < MaxFrames
    /\ \E p \in 1..Len(heap) :
        /\ heap' = New(heap, p)
        /\ envOp' = [op |-> "new", env |-> Len(heap) + 1, before |-> heap]

EnvDefine ==
    \E e \in 1..Len(heap), name \in EnvNames, value \in EnvValues \cup {None} :
        /\ heap' = Define(heap, e, name, value)
        /\ envOp' = [op |-> "define", env |-> e, name |-> name, value |-> value,
                     before |-> heap]

EnvGet ==
    \E e \in 1..Len(heap), name \in EnvNames :
        /\ heap' = heap
        /\ envOp' = [op |-> "get", env |-> e, name |-> name,
                     res |-> Get(heap, Shared(e), name), before |-> heap]

EnvAssign ==
    \E e \in 1..Len(heap), name \in EnvNames, value \in EnvValues :
        LET r == Assign(heap, Shared(e), name, value)
        IN  /\ heap' = r.heap
            /\ envOp' = [op |-> "assign", env |-> e, name |-> name, value |-> value,
                         res |-> r.res, before |-> heap]

EnvGetAt ==
    \E e \in 1..Len(heap), d \in 0..MaxDistance, name \in EnvNames :
        /\ heap' = heap
        /\ envOp' = [op |-> "get_at", env |-> e, distance |-> d, name |-> name,
                     res |-> GetAt(heap, e, d, name), before |-> heap]

EnvAssignAt ==
    \E e \in 1..Len(heap), d \in 0..MaxDistance, name \in EnvNames,
       value \in EnvValues :
        LET r == AssignAt(heap, e, d, name, value)
        IN  /\ heap' = r.heap
            /\ envOp' = [op |-> "assign_at", env |-> e, distance |-> d,
                         name |-> name, value |-> value, res |-> r.res,
                         before |-> heap]

EnvIdle ==
    /\ scopes = << >> /\ locals = EmptyLocals /\ resOp = NoOp
    /\ program = << >> /\ pc = "env" /\ index = 0 /\ output = << >>
    /\ had_runtime_error = FALSE /\ trace = {}
    /\ tokens = << >> /\ parseOp = NoOp
    /\ valueOp = NoOp /\ scanOp = NoOp

EnvUnchanged ==
    UNCHANGED <<scopes, locals, resOp, program, pc, index, output,
                had_runtime_error, trace, tokens, parseOp, valueOp, scanOp>>

InitEnv == heap = EnvInitHeap /\ envOp = NoOp /\ EnvIdle

NextEnv ==
    \/ EnvNew /\ EnvUnchanged
    \/ EnvDefine /\ EnvUnchanged
    \/ EnvGet /\ EnvUnchanged
    \/ EnvAssign /\ EnvUnchanged
    \/ EnvGetAt /\ EnvUnchanged
    \/ EnvAssignAt /\ EnvUnchanged

SpecEnv == InitEnv /\ [][NextEnv]_vars

\* C5: after assign_at(d, name, v) on an environment whose frame d hops up
\* binds name (d = 0 included), get_at(d, name) on the same environment
\* returns v.
C5_AssignAtThenGetAt ==
    (/\ envOp.op = "assign_at"
     /\ envOp.distance <= Depth(envOp.before, envOp.env)
     /\ envOp.name \in
            DOMAIN envOp.before[Hop(envOp.before, envOp.env, envOp.distance)].values)
    => GetAt(heap, envOp.env, envOp.distance, envOp.name) = Ok(envOp.value)

\* C10: get_at and assign_at on an environment with fewer than d enclosing
\* frames fail with AncestorNotFound and modify no frame.
C10_ShortChainIsAncestorNotFound ==
    (/\ envOp.op \in {"get_at", "assign_at"}
     /\ envOp.distance > Depth(envOp.before, envOp.env))
    => /\ envOp.res = Err(AncestorNotFound(envOp.distance, envOp.name))
       /\ heap = envOp.before

MinOf(S) == CHOOSE x \in S : \A y \in S : x <= y

\* The hop counts, from frame e outward, of the frames that bind name
BindingHops(H, e, name) ==
    {d \in 0..Depth(H, e) : name \in DOMAIN H[Hop(H, e, d)].values}

\* What a read of a binding yields: Nil for a declared, uninitialized one
Read(value) == IF value = None THEN Nil ELSE value

\* C21: get(name) returns the value bound in the nearest frame of the chain
\* that binds name (Nil if that binding is uninitialized) and fails with
\* UndefinedVariable if no frame binds it; define(name, value) inserts or
\* overwrites the binding in the current frame only: every other frame and
\* every other binding is unchanged and get then returns the defined value.
C21_GetNearestDefineCurrent ==
    /\ envOp.op = "get" =>
        IF BindingHops(envOp.before, envOp.env, envOp.name) = {}
        THEN envOp.res = Err(UndefinedVariable(envOp.name))
        ELSE envOp.res =
                Ok(Read(envOp.before[Hop(envOp.before, envOp.env,
                        MinOf(BindingHops(envOp.before, envOp.env, envOp.name)))
                    ].values[envOp.name]))
    /\ envOp.op = "define" =>
        /\ Len(heap) = Len(envOp.before)
        /\ \A f \in 1..Len(heap) : f # envOp.env => heap[f] = envOp.before[f]
        /\ heap[envOp.env].enclosing = envOp.before[envOp.env].enclosing
        /\ DOMAIN heap[envOp.env].values =
                DOMAIN envOp.before[envOp.env].values \cup {envOp.name}
        /\ \A n \in DOMAIN envOp.before[envOp.env].values \ {envOp.name} :
                heap[envOp.env].values[n] = envOp.before[envOp.env].values[n]
        /\ heap[envOp.env].values[envOp.name] = envOp.value
        /\ Get(heap, Shared(envOp.env), envOp.name) = Ok(Read(envOp.value))

\* A define in an inner frame of a name that the enclosing frame binds to
\* another value: the inner frame now shadows it
C21_Witness ==
    /\ envOp.op = "define"
    /\ heap[envOp.env].enclosing # 0
    /\ envOp.name \in DOMAIN heap[heap[envOp.env].enclosing].values
    /\ envOp.name \in DOMAIN envOp.before[envOp.env].values
    /\ heap[heap[envOp.env].enclosing].values[envOp.name] # envOp.value
    /\ envOp.value # None

\* A get that finds the name one frame up although the outermost frame binds
\* it too, to another value
C21_ShadowedGet ==
    /\ envOp.op = "get"
    /\ BindingHops(envOp.before, envOp.env, envOp.name) = {1, 2}
    /\ heap[heap[envOp.env].enclosing].values[envOp.name] # heap[1].values[envOp.name]

-----------------------------------------------------------------------------
(* AST: tree/expr.rs, tree/stmt.rs. An Option<Box<_>> is a sequence of at  *)
(* most one element. A token is its lexeme and its line.                   *)

Literal(v) == [k |-> "Literal", v |-> v]
Variable(name, line) == [k |-> "Variable", name |-> name, line |-> line]
AssignExpr(name, line, value) ==
    [k |-> "Assign", name |-> name, line |-> line, value |-> value]
Binary(left, op, right) == [k |-> "Binary", left |-> left, op |-> op, right |-> right]
Logical(left, op, right) == [k |-> "Logical", left |-> left, op |-> op, right |-> right]
Unary(op, right) == [k |-> "Unary", op |-> op, right |-> right]
Grouping(e) == [k |-> "Grouping", e |-> e]
Call(callee, arguments) == [k |-> "Call", callee |-> callee, arguments |-> arguments]

PrintStmt(e) == [k |-> "Print", e |-> e]
ExpressionStmt(e) == [k |-> "Expression", e |-> e]
VarStmt(name, initializer) == [k |-> "Var", name |-> name, initializer |-> initializer]
BlockStmt(stmts) == [k |-> "Block", stmts |-> stmts]
IfStmt(condition, then_branch, else_branch) ==
    [k |-> "If", condition |-> condition, then_branch |-> then_branch,
     else_branch |-> else_branch]
WhileStmt(condition, body) == [k |-> "While", condition |-> condition, body |-> body]
FunctionStmt(name, params, body) ==
    [k |-> "Function", name |-> name, params |-> params, body |-> body]
ReturnStmt(value) == [k |-> "Return", value |-> value]

\* Expr::name, an Option<String> as a set of at most one lexeme
RECURSIVE ExprName(_)
ExprName(expr) ==
    CASE expr.k = "Variable" -> {expr.name}
      [] expr.k = "Assign" -> {expr.name}
      [] expr.k = "Binary" -> ExprName(expr.left)
      [] expr.k = "Call" -> ExprName(expr.callee)
      [] OTHER -> {}

-----------------------------------------------------------------------------
(* Resolver: resolver/mod.rs, and the resolver's accept of tree/*.rs.      *)
(* R is [scopes, current_function, had_error, locals]: the Resolver and    *)
(* the resolution table of the interpreter it holds.                       *)

BeginScope(R) == [R EXCEPT !.scopes = Append(@, EmptyScope)]

EndScope(R) ==
    [R EXCEPT !.scopes = IF Len(@) = 0 THEN @ ELSE SubSeq(@, 1, Len(@) - 1)]

\* a declare that would mark the name as defined at once
DeclareDefined(R, name) ==
    IF Len(R.scopes) > 0
    THEN IF name \in DOMAIN R.scopes[Len(R.scopes)]
         THEN [r |-> R, res |-> Err([kind |-> "RedefiningLocalVar", name |-> name])]
         ELSE [r |-> [R EXCEPT !.scopes[Len(R.scopes)] = (name :> TRUE) @@ @],
               res |-> Ok(Nil)]
    ELSE [r |-> R, res |-> Ok(Nil)]

\* a declare that would look for the name in every scope of the stack
DeclareAnyScope(R, name) ==
    IF \E i \in 1..Len(R.scopes) : name \in DOMAIN R.scopes[i]
    THEN [r |-> R, res |-> Err([kind |-> "RedefiningLocalVar", name |-> name])]
    ELSE IF Len(R.scopes) > 0
    THEN [r |-> [R EXCEPT !.scopes[Len(R.scopes)] = (name :> FALSE) @@ @],
          res |-> Ok(Nil)]
    ELSE [r |-> R, res |-> Ok(Nil)]

Declare(R, name) ==
    IF Len(R.scopes) > 0
    THEN IF name \in DOMAIN R.scopes[Len(R.scopes)]
         THEN [r |-> R, res |-> Err([kind |-> "RedefiningLocalVar", name |-> name])]
         ELSE [r |-> [R EXCEPT !.scopes[Len(R.scopes)] = (name :> FALSE) @@ @],
               res |-> Ok(Nil)]
    ELSE [r |-> R, res |-> Ok(Nil)]

ResolverDefine(R, name) ==
    IF Len(R.scopes) > 0
    THEN [R EXCEPT !.scopes[Len(R.scopes)] = (name :> TRUE) @@ @]
    ELSE R

\* Interpreter::resolve
InterpreterResolve(L, expr, depth) ==
    IF ExprName(expr) # {}
    THEN ((CHOOSE n \in ExprName(expr) : TRUE) :> depth) @@ L
    ELSE L

\* i enumerates the reversed stack: i = 0 is the innermost scope
ResolveLocal(R, expr, name) ==
    LET len == Len(R.scopes)
        hits == {i \in 0..(len - 1) : name \in DOMAIN R.scopes[len - i]}
    IN  IF hits = {}
        THEN R
        ELSE [R EXCEPT !.locals = InterpreterResolve(@, expr, len - 1 - MinOf(hits))]

\* Interpreter::look_up_variable's read of the table for a use site
TableEntry(L, expr) ==
    {L[n] : n \in ExprName(expr) \cap DOMAIN L}

-----------------------------------------------------------------------------
(* The resolver's walk: Acceptor<resolver::Result<()>> of tree/stmt.rs and *)
(* tree/expr.rs, Resolver::resolve_block, Resolver::resolve.               *)
(* Each returns [r, res]: the resolver after the walk and Ok or Err.       *)

StaticError(kind, name) == Err([kind |-> kind, name |-> name])

RECURSIVE ResolveExpr(_, _)
RECURSIVE ResolveExprs(_, _, _)
RECURSIVE ResolveStmt(_, _)
RECURSIVE ResolveBlock(_, _, _)
RECURSIVE ResolveBlockToFirstError(_, _, _)
RECURSIVE ResolveParams(_, _, _)

ResolveExpr(R, expr) ==
    CASE expr.k = "Variable" ->
            IF /\ Len(R.scopes) > 0
               /\ expr.name \in DOMAIN R.scopes[Len(R.scopes)]
               /\ R.scopes[Len(R.scopes)][expr.name] = FALSE
            THEN [r |-> R, res |-> StaticError("LocalVarReadWhileInitialized", expr.name)]
            ELSE [r |-> ResolveLocal(R, expr, expr.name), res |-> Ok(Nil)]
      [] expr.k = "Assign" ->
            LET v == ResolveExpr(R, expr.value)
            IN  IF ~v.res.ok THEN v
                ELSE [r |-> ResolveLocal(v.r, expr.value, expr.name), res |-> Ok(Nil)]
      [] expr.k \in {"Binary", "Logical"} ->
            LET l == ResolveExpr(R, expr.left)
            IN  IF ~l.res.ok THEN l ELSE ResolveExpr(l.r, expr.right)
      [] expr.k = "Grouping" -> ResolveExpr(R, expr.e)
      [] expr.k = "Literal" -> [r |-> R, res |-> Ok(Nil)]
      [] expr.k = "Unary" -> ResolveExpr(R, expr.right)
      [] expr.k = "Call" ->
            LET c == ResolveExpr(R, expr.callee)
            IN  IF ~c.res.ok THEN c ELSE ResolveExprs(c.r, expr.arguments, 1)

ResolveExprs(R, exprs, i) ==
    IF i > Len(exprs) THEN [r |-> R, res |-> Ok(Nil)]
    ELSE LET a == ResolveExpr(R, exprs[i])
         IN  IF ~a.res.ok THEN a ELSE ResolveExprs(a.r, exprs, i + 1)

ResolveParams(R, params, i) ==
    IF i > Len(params) THEN [r |-> R, res |-> Ok(Nil)]
    ELSE LET d == Declare(R, params[i])
         IN  IF ~d.res.ok THEN d
             ELSE ResolveParams(ResolverDefine(d.r, params[i]), params, i + 1)

ResolveStmt(R, stmt) ==
    CASE stmt.k = "Block" ->
            [r |-> EndScope(ResolveBlock(BeginScope(R), stmt.stmts, 1)),
             res |-> Ok(Nil)]
      [] stmt.k = "Var" ->
            LET d == Declare(R, stmt.name)
                i == IF stmt.initializer = << >>
                     THEN [r |-> d.r, res |-> Ok(Nil)]
                     ELSE ResolveExpr(d.r, stmt.initializer[1])
            IN  IF ~d.res.ok THEN d
                ELSE IF ~i.res.ok THEN i
                ELSE [r |-> ResolverDefine(i.r, stmt.name), res |-> Ok(Nil)]
      [] stmt.k = "Function" ->
            LET d == Declare(R, stmt.name)
                enclosing_function == R.current_function
                inner == BeginScope([ResolverDefine(d.r, stmt.name)
                                        EXCEPT !.current_function = "Function"])
                p == ResolveParams(inner, stmt.params, 1)
                b == EndScope(ResolveBlock(p.r, stmt.body, 1))
            IN  IF ~d.res.ok THEN d
                ELSE IF ~p.res.ok THEN p
                ELSE [r |-> [b EXCEPT !.current_function = enclosing_function],
                      res |-> Ok(Nil)]
      [] stmt.k \in {"Expression", "Print"} -> ResolveExpr(R, stmt.e)
      [] stmt.k = "If" ->
            LET c == ResolveExpr(R, stmt.condition)
                t == ResolveStmt(c.r, stmt.then_branch)
            IN  IF ~c.res.ok THEN c
                ELSE IF ~t.res.ok THEN t
                ELSE IF stmt.else_branch = << >> THEN t
                ELSE ResolveStmt(t.r, stmt.else_branch[1])
      [] stmt.k = "Return" ->
            IF R.current_function = "None"
            THEN [r |-> R, res |-> StaticError("TopLevelReturn", "return")]
            ELSE IF stmt.value = << >> THEN [r |-> R, res |-> Ok(Nil)]
            ELSE ResolveExpr(R, stmt.value[1])
      [] stmt.k = "While" ->
            LET c == ResolveExpr(R, stmt.condition)
            IN  IF ~c.res.ok THEN c ELSE ResolveStmt(c.r, stmt.body)

\* A resolve_block that would leave the list at its first error
ResolveBlockToFirstError(R, stmts, i) ==
    IF i > Len(stmts) THEN R
    ELSE LET s == ResolveStmt(R, stmts[i])
         IN  IF s.res.ok THEN ResolveBlockToFirstError(s.r, stmts, i + 1)
             ELSE [s.r EXCEPT !.had_error = TRUE, !.errors = Append(@, s.res.err)]

\* Resolver::resolve_block: an error marks the resolver and the walk goes on
ResolveBlock(R, stmts, i) ==
    IF i > Len(stmts) THEN R
    ELSE LET s == ResolveStmt(R, stmts[i])
         IN  ResolveBlock(IF s.res.ok THEN s.r
                          ELSE [s.r EXCEPT !.had_error = TRUE,
                                           !.errors = Append(@, s.res.err)],
                          stmts, i + 1)

\* Resolver::new, then Resolver::resolve
NewResolver(L) ==
    [scopes |-> << >>, current_function |-> "None", had_error |-> FALSE,
     errors |-> << >>, locals |-> L]

Resolve(L, stmts) == ResolveBlock(NewResolver(L), stmts, 1)

-----------------------------------------------------------------------------
(* Value operations: value/mod.rs. A Number (f64) is an integer here; a    *)
(* division is exact on the operands used.                                 *)

ValueError(kind) == Err([kind |-> kind])

\* A truthiness that takes the number 0 for false as well
IsTruthyNonZero(v) ==
    CASE v.t = "Nil" -> FALSE
      [] v.t = "Boolean" -> v.b
      [] v.t = "Number" -> v.n # 0
      [] OTHER -> TRUE

IsTruthy(v) ==
    CASE v.t = "Nil" -> FALSE
      [] v.t = "Boolean" -> v.b
      [] OTHER -> TRUE

IsEqual(a, b) ==
    CASE a.t = "String" /\ b.t = "String" -> a.s = b.s
      [] a.t = "Number" /\ b.t = "Number" -> a.n = b.n
      [] a.t = "Boolean" /\ b.t = "Boolean" -> a.b = b.b
      [] a.t = "Nil" /\ b.t = "Nil" -> TRUE
      [] OTHER -> FALSE

IsCallable(v) == v.t \in {"Function", "BuiltIn"}

Arity(v) ==
    CASE v.t = "Function" -> Len(v.declaration.params)
      [] v.t = "BuiltIn" -> v.arity
      [] OTHER -> 0

\* The strings of the programs, in lexicographic order
StringOrder == <<"", "a", "ab", "b">>
StringRank(str) == CHOOSE i \in 1..Len(StringOrder) : StringOrder[i] = str

BothNumbers(a, other) == a.t = "Number" /\ other # << >> /\ other[1].t = "Number"
BothStrings(a, other) == a.t = "String" /\ other # << >> /\ other[1].t = "String"

\* Value::calculate; other is the Option<&Value>
Calculate(a, other, op) ==
    CASE op = "-" ->
            IF BothNumbers(a, other) THEN Ok(Number(a.n - other[1].n))
            ELSE IF a.t = "Number" /\ other = << >> THEN Ok(Number(0 - a.n))
            ELSE IF other = << >> THEN ValueError("MustBeNumber")
            ELSE ValueError("InvalidType")
      [] op = "+" ->
            IF BothNumbers(a, other) THEN Ok(Number(a.n + other[1].n))
            ELSE IF BothStrings(a, other) THEN Ok(String(a.s \o other[1].s))
            ELSE ValueError("InvalidType")
      [] op = "/" ->
            IF BothNumbers(a, other)
            THEN IF other[1].n = 0 THEN ValueError("ZeroDivision")
                 ELSE Ok(Number(a.n \div other[1].n))
            ELSE ValueError("InvalidType")
      [] op = "*" ->
            IF BothNumbers(a, other) THEN Ok(Number(a.n * other[1].n))
            ELSE ValueError("InvalidType")
      [] op = "!" ->
            IF other = << >> THEN Ok(Boolean(~IsTruthy(a)))
            ELSE ValueError("InvalidOperation")
      [] op = "==" ->
            IF other # << >> THEN Ok(Boolean(IsEqual(a, other[1])))
            ELSE ValueError("InvalidOperation")
      [] op = "!=" ->
            IF other # << >> THEN Ok(Boolean(~IsEqual(a, other[1])))
            ELSE ValueError("InvalidOperation")
      [] op = ">" ->
            IF BothNumbers(a, other) THEN Ok(Boolean(a.n > other[1].n))
            ELSE IF BothStrings(a, other)
                 THEN Ok(Boolean(StringRank(a.s) > StringRank(other[1].s)))
            ELSE ValueError("InvalidOperation")
      [] op = ">=" ->
            IF BothNumbers(a, other) THEN Ok(Boolean(a.n >= other[1].n))
            ELSE IF BothStrings(a, other)
                 THEN Ok(Boolean(StringRank(a.s) >= StringRank(other[1].s)))
            ELSE ValueError("InvalidOperation")
      [] op = "<" ->
            IF BothNumbers(a, other) THEN Ok(Boolean(a.n < other[1].n))
            ELSE IF BothStrings(a, other)
                 THEN Ok(Boolean(StringRank(a.s) < StringRank(other[1].s)))
            ELSE ValueError("InvalidOperation")
      [] op = "<=" ->
            IF BothNumbers(a, other) THEN Ok(Boolean(a.n <= other[1].n))
            ELSE IF BothStrings(a, other)
                 THEN Ok(Boolean(StringRank(a.s) <= StringRank(other[1].s)))
            ELSE ValueError("InvalidOperation")
      [] OTHER -> ValueError("InvalidOperation")

-----------------------------------------------------------------------------
(* Interpreter: interpreter/mod.rs, value/callable.rs, and the             *)
(* interpreter's accept of tree/stmt.rs and tree/expr.rs.                  *)
(*                                                                         *)
(* W is the world an evaluation runs in and leaves behind:                 *)
(*   interp  the Interpreter behind the visitor: environment, globals,     *)
(*           locals                                                        *)
(*   heap    the frames                                                    *)
(*   out     the values printed                                            *)
(*   tr      the events of the evaluation (calls, blocks, table uses)      *)
(*   clock   the time builtins::clock reads                                *)
(* Each operator returns [w, res]: the world after, and Ok(v) or Err(e).   *)
(* The Return signal is the error [kind |-> "Return", value |-> v].        *)

Globals == 1

ReturnSignal(v) == Err([kind |-> "Return", value |-> v])

\* Interpreter::default with define_natives
InitHeap ==
    <<[values |-> [n \in {"clock", "sum"} |->
                      IF n = "clock" THEN BuiltIn("clock", 0) ELSE BuiltIn("sum", 2)],
       enclosing |-> 0]>>

Emit(w, event) == [w EXCEPT !.tr = @ \cup {event}]

\* Interpreter::look_up_variable
LookUpVariable(interp, H, name) ==
    IF name \in DOMAIN interp.locals
    THEN GetAt(H, interp.environment, interp.locals[name], name)
    ELSE Get(H, Shared(interp.globals), name)

\* a store that would start the walk at the current environment
StoreFromEnvironment(interp, H, name, value) ==
    IF name \in DOMAIN interp.locals
    THEN AssignAt(H, interp.environment, interp.locals[name], name, value)
    ELSE Assign(H, Shared(interp.environment), name, value)

\* The store of Expr::Assign's accept
StoreVariable(interp, H, name, value) ==
    IF name \in DOMAIN interp.locals
    THEN AssignAt(H, interp.environment, interp.locals[name], name, value)
    ELSE Assign(H, Shared(interp.globals), name, value)

\* a block exit that would put the environment back on the normal exit only
BlockExitOnOk(interp, prev, res) ==
    IF res.ok
    THEN [interp EXCEPT !.environment = prev]
    ELSE interp

\* execute_block's two exits: both put the previous environment back
BlockExit(interp, prev, res) ==
    IF res.ok
    THEN [interp EXCEPT !.environment = prev]
    ELSE [interp EXCEPT !.environment = prev]

\* A call that would hand on whatever its body ended with
CallResultOfBody(body) == body

\* Callable::call for a Function: what the call makes of the body's result
CallResult(body) == Ok(Nil)

\* Callable::call for a Function: the enclosing frame of the call's environment
CallEnclosing(interp, callee) == interp.globals

\* The ? operator: an Err result leaves the function at once
Try(r, K(_)) == IF r.res.ok THEN K(r) ELSE [w |-> r.w, res |-> r.res]

Done(w) == [w |-> w, res |-> Ok(Nil)]

RECURSIVE Evaluate(_, _)
RECURSIVE EvaluateArguments(_, _, _, _)
RECURSIVE Execute(_, _)
RECURSIVE ExecuteStmts(_, _, _)
RECURSIVE WhileLoop(_, _, _)
RECURSIVE DefineParams(_, _, _, _, _)

\* Interpreter::execute: the statement runs on a clone of the interpreter,
\* which shares the frames
DropClone(r, interp) == [w |-> [r.w EXCEPT !.interp = interp], res |-> r.res]

ExecuteOnClone(w, stmt) == DropClone(Execute(w, stmt), w.interp)

\* the loop of execute_block
ExecuteStmts(w, stmts, i) ==
    IF i > Len(stmts) THEN Done(w)
    ELSE Try(ExecuteOnClone(w, stmts[i]), LAMBDA r : ExecuteStmts(r.w, stmts, i + 1))

BlockExitKind(res) ==
    IF res.ok THEN "normal"
    ELSE IF res.err.kind = "Return" THEN "return" ELSE "error"

\* the two returns of execute_block, r being what its loop ended with
BlockReturn(prev, env, r) ==
    [w |-> Emit([r.w EXCEPT !.interp = BlockExit(r.w.interp, prev, r.res)],
                [ev |-> "execute_block", before |-> prev, env |-> env,
                 after |-> BlockExit(r.w.interp, prev, r.res).environment,
                 exit |-> BlockExitKind(r.res)]),
     res |-> r.res]

\* Interpreter::execute_block
ExecuteBlock(w, stmts, env) ==
    BlockReturn(w.interp.environment, env,
                ExecuteStmts([w EXCEPT !.interp.environment = env], stmts, 1))

DefineParams(H, env, params, args, i) ==
    IF i > Len(args) THEN H
    ELSE DefineParams(Define(H, env, params[i], args[i]), env, params, args, i + 1)

\* builtins::clock, builtins::sum
CallBuiltIn(w, callee, args) ==
    IF callee.name = "clock"
    THEN [w |-> w, res |-> Ok(Number(w.clock))]
    ELSE [w |-> [w EXCEPT !.out = Append(@,
                    [sum |-> <<args[1], args[2]>>,
                     res |-> Calculate(args[1], <<args[2]>>, "+")])],
          res |-> Calculate(args[1], <<args[2]>>, "+")]

\* the end of Callable::call for a Function, b being what execute_block returned
CallReturn(callee, enclosing, env, b) ==
    [w |-> Emit(b.w, [ev |-> "call", closure |-> callee.closure,
                      enclosing |-> enclosing, env |-> env,
                      body |-> b.res, res |-> CallResult(b.res)]),
     res |-> CallResult(b.res)]

\* Callable::call
CallCallable(w, callee, args) ==
    IF callee.t = "Function"
    THEN CallReturn(callee, CallEnclosing(w.interp, callee), Len(w.heap) + 1,
            ExecuteBlock(
                [w EXCEPT !.heap =
                    DefineParams(New(w.heap, CallEnclosing(w.interp, callee)),
                                 Len(w.heap) + 1, callee.declaration.params, args, 1)],
                callee.declaration.body, Len(w.heap) + 1))
    ELSE CallBuiltIn(w, callee, args)

\* the arguments, left to right, up to the first error
EvaluateArguments(w, exprs, i, values) ==
    IF i > Len(exprs) THEN [w |-> w, res |-> [ok |-> TRUE, values |-> values]]
    ELSE Try(Evaluate(w, exprs[i]),
             LAMBDA a : EvaluateArguments(a.w, exprs, i + 1, Append(values, a.res.v)))

\* Expr::Variable
EvaluateVariable(w, expr, res) ==
    [w |-> Emit(w, [ev |-> "variable", name |-> expr.name, line |-> expr.line,
                    entry |-> TableEntry(w.interp.locals, expr),
                    environment |-> w.interp.environment,
                    heap |-> w.heap, after |-> w.heap, res |-> res]),
     res |-> res]

\* Expr::Assign once its value v is there; a is what the store returned
EvaluateAssign(v, expr, a) ==
    [w |-> Emit([v.w EXCEPT !.heap = a.heap],
                [ev |-> "assign", name |-> expr.name, line |-> expr.line,
                 entry |-> TableEntry(v.w.interp.locals, expr),
                 environment |-> v.w.interp.environment,
                 heap |-> v.w.heap, after |-> a.heap,
                 stored |-> a.res, res |-> Ok(v.res.v)]),
     res |-> Ok(v.res.v)]

\* a Logical that would always go on to its right operand
NeverShortCircuits(op, left) == FALSE

\* Expr::Logical: whether the value of the left operand is returned at once
ShortCircuits(op, left) ==
    IF op = "or" THEN IsTruthy(left) ELSE ~IsTruthy(left)

\* what an evaluation can have done to the world: the frames and the output
Effects(w) == [heap |-> w.heap, out |-> w.out]

\* Expr::Logical once its left operand l is there: right is the result of
\* the right operand if it was evaluated, r what the expression returns
EvaluateLogical(expr, l, right, r) ==
    [w |-> Emit(r.w, [ev |-> "logical", op |-> expr.op, left |-> l.res.v,
                      before |-> Effects(l.w), right |-> right,
                      after |-> Effects(r.w), res |-> r.res]),
     res |-> r.res]

EvaluateRight(expr, l, r) == EvaluateLogical(expr, l, <<r.res>>, r)

\* Expr::Call once its callee c and the result a of its arguments are
\* there; r is what the expression returns
EvaluateCallEnd(c, a, r) ==
    [w |-> Emit(r.w, [ev |-> "call_expr", callee |-> c.res.v,
                      before |-> Effects(c.w), arguments |-> a.res,
                      evaluated |-> Effects(a.w), after |-> Effects(r.w),
                      res |-> r.res]),
     res |-> r.res]

\* Expr::Call after the callee: the arguments, then the two checks, then the call
EvaluateCall(c, a) ==
    EvaluateCallEnd(c, a,
        IF ~a.res.ok THEN a
        ELSE IF ~IsCallable(c.res.v)
        THEN [w |-> a.w, res |-> ValueError("NotCallable")]
        ELSE IF Len(a.res.values) # Arity(c.res.v)
        THEN [w |-> a.w, res |-> ValueError("InvalidCountOfArguments")]
        ELSE CallCallable(a.w, c.res.v, a.res.values))

Evaluate(w, expr) ==
    CASE expr.k = "Binary" ->
            Try(Evaluate(w, expr.left), LAMBDA l :
            Try(Evaluate(l.w, expr.right), LAMBDA r :
                [w |-> r.w, res |-> Calculate(l.res.v, <<r.res.v>>, expr.op)]))
      [] expr.k = "Grouping" -> Evaluate(w, expr.e)
      [] expr.k = "Literal" ->
            [w |-> w, res |-> IF expr.v # None THEN Ok(expr.v) ELSE Ok(Nil)]
      [] expr.k = "Unary" ->
            Try(Evaluate(w, expr.right), LAMBDA v :
                [w |-> v.w, res |-> Calculate(v.res.v, << >>, expr.op)])
      [] expr.k = "Variable" ->
            EvaluateVariable(w, expr, LookUpVariable(w.interp, w.heap, expr.name))
      [] expr.k = "Assign" ->
            Try(Evaluate(w, expr.value), LAMBDA v :
                EvaluateAssign(v, expr,
                    StoreVariable(v.w.interp, v.w.heap, expr.name, v.res.v)))
      [] expr.k = "Logical" ->
            Try(Evaluate(w, expr.left), LAMBDA l :
                IF ShortCircuits(expr.op, l.res.v)
                THEN EvaluateLogical(expr, l, << >>, l)
                ELSE EvaluateRight(expr, l, Evaluate(l.w, expr.right)))
      [] expr.k = "Call" ->
            Try(Evaluate(w, expr.callee), LAMBDA c :
                EvaluateCall(c, EvaluateArguments(c.w, expr.arguments, 1, << >>)))

\* Stmt::While; the model gives up after MaxLoop turns
WhileLoop(w, stmt, fuel) ==
    Try(Evaluate(w, stmt.condition), LAMBDA c :
        IF ~IsTruthy(c.res.v) THEN Done(c.w)
        ELSE IF fuel = 0 THEN [w |-> c.w, res |-> Err([kind |-> "Diverges"])]
        ELSE Try(Execute(c.w, stmt.body), LAMBDA b : WhileLoop(b.w, stmt, fuel - 1)))

Execute(w, stmt) ==
    CASE stmt.k = "Expression" ->
            Try(Evaluate(w, stmt.e), LAMBDA v : Done(v.w))
      [] stmt.k = "Print" ->
            Try(Evaluate(w, stmt.e), LAMBDA v :
                Done([v.w EXCEPT !.out = Append(@, v.res.v)]))
      [] stmt.k = "Var" ->
            Try(IF stmt.initializer = << >>
                THEN [w |-> w, res |-> Ok(None)]
                ELSE Evaluate(w, stmt.initializer[1]),
                LAMBDA v :
                Done([v.w EXCEPT !.heap =
                        Define(@, v.w.interp.environment, stmt.name, v.res.v)]))
      [] stmt.k = "Block" ->
            ExecuteBlock([w EXCEPT !.heap = New(@, w.interp.environment)],
                         stmt.stmts, Len(w.heap) + 1)
      [] stmt.k = "If" ->
            Try(Evaluate(w, stmt.condition), LAMBDA c :
                IF IsTruthy(c.res.v) THEN Execute(c.w, stmt.then_branch)
                ELSE IF stmt.else_branch # << >> THEN Execute(c.w, stmt.else_branch[1])
                ELSE Done(c.w))
      [] stmt.k = "While" -> WhileLoop(w, stmt, MaxLoop)
      [] stmt.k = "Function" ->
            Done([w EXCEPT !.heap =
                    Define(@, w.interp.environment, stmt.name,
                           Function(stmt, w.interp.environment))])
      [] stmt.k = "Return" ->
            Try(IF stmt.value = << >> THEN Done(w) ELSE Evaluate(w, stmt.value[1]),
                LAMBDA v : [w |-> v.w, res |-> ReturnSignal(v.res.v)])

-----------------------------------------------------------------------------
(* Spec: the run pipeline of examples/quick-dev.rs on a program: resolve,  *)
(* then interpret_stmt statement by statement (pc starts at "resolve");    *)
(* and the run subcommand of main.rs (pc starts at "run").                 *)

Num(n) == Literal(Number(n))

S_VarA == VarStmt("a", <<Num(1)>>)
S_PrintA == PrintStmt(Variable("a", 2))
S_AssignA == ExpressionStmt(AssignExpr("a", 3, Num(3)))
\* { var a = 2; print a; }
S_BlockLocal == BlockStmt(<<VarStmt("a", <<Num(2)>>), PrintStmt(Variable("a", 4))>>)
\* { { var c = 1; print c; } }
S_Nested ==
    BlockStmt(<<BlockStmt(<<VarStmt("c", <<Num(1)>>), PrintStmt(Variable("c", 5))>>)>>)
\* { var b = 1; { print b; } }
S_Outer ==
    BlockStmt(<<VarStmt("b", <<Num(1)>>), BlockStmt(<<PrintStmt(Variable("b", 6))>>)>>)
\* fun f() { return 7; print 8; }
S_FunF == FunctionStmt("f", << >>, <<ReturnStmt(<<Num(7)>>), PrintStmt(Num(8))>>)
\* print f();
S_PrintF == PrintStmt(Call(Variable("f", 7), << >>))
\* { { print 1; } print f(); print undef; }
S_BlockCallF ==
    BlockStmt(<<BlockStmt(<<PrintStmt(Num(1))>>),
                PrintStmt(Call(Variable("f", 8), << >>)),
                PrintStmt(Variable("undef", 8))>>)
\* { var b = 1; fun g() { b = b + 1; return b; } print g(); print b; }
S_Closure ==
    BlockStmt(<<VarStmt("b", <<Num(1)>>),
                FunctionStmt("g", << >>,
                    <<ExpressionStmt(AssignExpr("b", 9,
                          Binary(Variable("b", 9), "+", Num(1)))),
                      ReturnStmt(<<Variable("b", 10)>>)>>),
                PrintStmt(Call(Variable("g", 11), << >>)),
                PrintStmt(Variable("b", 12))>>)
\* fun h(p) { print p; print undef; print 9; }
S_FunH ==
    FunctionStmt("h", <<"p">>,
        <<PrintStmt(Variable("p", 13)), PrintStmt(Variable("undef", 14)),
          PrintStmt(Num(9))>>)
\* h(1);
S_CallH == ExpressionStmt(Call(Variable("h", 15), <<Num(1)>>))
\* { var z = 1; z = 5; a = 4; print a; }
S_LocalAssign ==
    BlockStmt(<<VarStmt("z", <<Num(1)>>), ExpressionStmt(AssignExpr("z", 16, Num(5))),
                ExpressionStmt(AssignExpr("a", 17, Num(4))),
                PrintStmt(Variable("a", 17))>>)

\* return 1;
S_TopReturn == ReturnStmt(<<Num(1)>>)
\* { while (false) return; }
S_NestedReturn ==
    BlockStmt(<<WhileStmt(Literal(Boolean(FALSE)), ReturnStmt(<< >>))>>)
\* fun k(q, q) { }
S_FunDup == FunctionStmt("k", <<"q", "q">>, << >>)
\* { var s = s; }
S_SelfRead == BlockStmt(<<VarStmt("s", <<Variable("s", 18)>>)>>)

\* { print 1 or sum(1, 2); print nil and undef; print nil or "a";
\*   print 1 and 2; print 1 and undef; }
S_Logical ==
    BlockStmt(<<PrintStmt(Logical(Num(1), "or",
                    Call(Variable("sum", 19), <<Num(1), Num(2)>>))),
                PrintStmt(Logical(Literal(Nil), "and", Variable("undef", 20))),
                PrintStmt(Logical(Literal(Nil), "or", Literal(String("a")))),
                PrintStmt(Logical(Num(1), "and", Num(2))),
                PrintStmt(Logical(Num(1), "and", Variable("undef", 21)))>>)

\* 1(undef);
S_CallNumber == ExpressionStmt(Call(Num(1), <<Variable("undef", 22)>>))

\* sum(sum(1, 2));
S_CallSum ==
    ExpressionStmt(Call(Variable("sum", 23),
                        <<Call(Variable("sum", 23), <<Num(1), Num(2)>>)>>))

StmtPool ==
    {S_VarA, S_PrintA, S_AssignA, S_BlockLocal, S_Nested, S_Outer, S_FunF, S_PrintF,
     S_BlockCallF, S_Closure, S_FunH, S_CallH, S_LocalAssign,
     S_TopReturn, S_NestedReturn, S_FunDup, S_SelfRead,
     S_Logical, S_CallNumber, S_CallSum}

\* fun makeCounter() { var i = 0; fun inc() { i = i + 1; return i; } return inc; }
\* var c = makeCounter(); print c(); print c(); print c();
MakeCounter ==
    <<FunctionStmt("makeCounter", << >>,
        <<VarStmt("i", <<Num(0)>>),
          FunctionStmt("inc", << >>,
              <<ExpressionStmt(AssignExpr("i", 21,
                    Binary(Variable("i", 21), "+", Num(1)))),
                ReturnStmt(<<Variable("i", 22)>>)>>),
          ReturnStmt(<<Variable("inc", 23)>>)>>),
      VarStmt("c", <<Call(Variable("makeCounter", 24), << >>)>>),
      PrintStmt(Call(Variable("c", 25), << >>)),
      PrintStmt(Call(Variable("c", 26), << >>)),
      PrintStmt(Call(Variable("c", 27), << >>))>>

\* { return; var s = s; print undef; }
BlockOfErrors ==
    <<BlockStmt(<<ReturnStmt(<< >>), VarStmt("s", <<Variable("s", 28)>>),
                  PrintStmt(Variable("undef", 29))>>)>>
\* fun g() { var s = s; var s; }  return;
FunctionOfErrors ==
    <<FunctionStmt("g", << >>, <<VarStmt("s", <<Variable("s", 30)>>),
                                 VarStmt("s", << >>)>>),
      ReturnStmt(<< >>)>>
\* { fun k(q, q) { } }  return 1;
BlockOfFunDup == <<BlockStmt(<<S_FunDup>>), S_TopReturn>>

StaticErrorPrograms == {BlockOfErrors, FunctionOfErrors, BlockOfFunDup}

RECURSIVE ProgramsOfLength(_)
ProgramsOfLength(n) ==
    IF n = 0 THEN {<< >>}
    ELSE {Append(p, x) : p \in ProgramsOfLength(n - 1), x \in StmtPool}

Programs ==
    UNION {ProgramsOfLength(n) : n \in 1..MaxProgram} \cup {MakeCounter}
    \cup StaticErrorPrograms

ClockValues == {1000, 2000}

SpecUnchanged == UNCHANGED <<envOp, scopes, tokens, parseOp, valueOp, scanOp>>

Init ==
    /\ program \in Programs
    /\ pc \in {"resolve", "run"}
    /\ index = 1
    /\ heap = InitHeap
    /\ locals = EmptyLocals
    /\ output = << >>
    /\ had_runtime_error = FALSE
    /\ trace = {}
    /\ envOp = NoOp /\ scopes = << >> /\ resOp = NoOp
    /\ tokens = << >> /\ parseOp = NoOp
    /\ valueOp = NoOp /\ scanOp = NoOp

\* Resolver::new(&interpreter).resolve(&stmts), and the exit on its error
RunResolve ==
    /\ pc = "resolve"
    /\ LET R == Resolve(locals, program)
       IN  /\ locals' = R.locals
           /\ resOp' = [op |-> "resolve", had_error |-> R.had_error,
                        errors |-> R.errors, scopes |-> R.scopes,
                        current_function |-> R.current_function]
           /\ pc' = IF R.had_error THEN "exit65" ELSE "interpret"
    /\ UNCHANGED <<heap, program, index, output, had_runtime_error, trace>>

\* the world interpret_stmt hands to a statement
World(now) ==
    [interp |-> [environment |-> Globals, globals |-> Globals, locals |-> locals],
     heap |-> heap, out |-> output, tr |-> {}, clock |-> now]

\* a loop that would stop at an error without marking the interpreter
InterpretResultUnmarked(r) ==
    /\ heap' = r.w.heap
    /\ output' = r.w.out
    /\ trace' = r.w.tr
    /\ IF r.res.ok
       THEN /\ index' = index + 1
            /\ UNCHANGED <<pc, had_runtime_error>>
       ELSE /\ pc' = IF r.res.err.kind = "Return" THEN "panic" ELSE "exit70"
            /\ UNCHANGED <<index, had_runtime_error>>

\* what interpret_stmt's loop does with a statement's result r
InterpretResult(r) ==
    /\ heap' = r.w.heap
    /\ output' = r.w.out
    /\ trace' = r.w.tr
    /\ IF r.res.ok
       THEN /\ index' = index + 1
            /\ UNCHANGED <<pc, had_runtime_error>>
       ELSE /\ had_runtime_error' = TRUE
            /\ pc' = IF r.res.err.kind = "Return" THEN "panic" ELSE "exit70"
            /\ index' = index

\* one turn of interpret_stmt's loop
InterpretStmt ==
    /\ pc = "interpret"
    /\ index <= Len(program)
    /\ \E now \in ClockValues :
        InterpretResult(ExecuteOnClone(World(now), program[index]))
    /\ UNCHANGED <<program, locals, resOp>>

\* interpret_stmt returns Ok(()) and main ends
InterpretEnd ==
    /\ pc = "interpret"
    /\ index > Len(program)
    /\ pc' = "exit0"
    /\ UNCHANGED <<heap, program, index, locals, output, had_runtime_error, trace,
                   resOp>>

\* run of main.rs: todo!() panics whatever the file holds
MainRun ==
    /\ pc = "run"
    /\ pc' = "panic"
    /\ UNCHANGED <<heap, program, index, locals, output, had_runtime_error, trace,
                   resOp>>

Next ==
    \/ RunResolve /\ SpecUnchanged
    \/ InterpretStmt /\ SpecUnchanged
    \/ InterpretEnd /\ SpecUnchanged
    \/ MainRun /\ SpecUnchanged

Spec == Init /\ [][Next]_vars

-----------------------------------------------------------------------------
(* SpecRes: the Resolver operations as actions *)

ResNames == {"x", "y"}
ResExprs ==
    {Variable("x", 1), Variable("x", 2), Variable("y", 1), Literal(Number(1))}

ResState == [scopes |-> scopes, current_function |-> "None", had_error |-> FALSE,
             errors |-> << >>, locals |-> locals]

\* the initializers of a declaration of name
ResInitializers(name) ==
    {<< >>, <<Literal(Number(1))>>, <<Variable("x", 1)>>, <<Variable("y", 1)>>,
     <<Grouping(Variable(name, 1))>>,
     <<Binary(Literal(Number(1)), "+", Variable(name, 1))>>}

ResBeginScope ==
    /\ Len(scopes) < MaxScopes
    /\ scopes' = BeginScope(ResState).scopes
    /\ locals' = locals
    /\ resOp' = [op |-> "begin_scope"]

ResEndScope ==
    /\ scopes' = EndScope(ResState).scopes
    /\ locals' = locals
    /\ resOp' = [op |-> "end_scope"]

ResDeclare ==
    \E name \in ResNames :
        LET d == Declare(ResState, name)
        IN  /\ scopes' = d.r.scopes
            /\ locals' = locals
            /\ resOp' = [op |-> "declare", name |-> name, res |-> d.res,
                         scopes |-> scopes]

ResDefine ==
    \E name \in ResNames :
        /\ scopes' = ResolverDefine(ResState, name).scopes
        /\ locals' = locals
        /\ resOp' = [op |-> "define", name |-> name]

ResResolveLocal ==
    \E expr \in ResExprs, name \in ResNames :
        /\ scopes' = scopes
        /\ locals' = ResolveLocal(ResState, expr, name).locals
        /\ resOp' = [op |-> "resolve_local", expr |-> expr, name |-> name,
                     locals |-> locals]

\* Stmt::Var of the resolver's walk
ResVar ==
    \E name \in ResNames : \E initializer \in ResInitializers(name) :
        LET v == ResolveStmt(ResState, VarStmt(name, initializer))
        IN  /\ scopes' = v.r.scopes
            /\ locals' = v.r.locals
            /\ resOp' = [op |-> "var", name |-> name, initializer |-> initializer,
                         res |-> v.res, scopes |-> scopes]

ResUnchanged ==
    UNCHANGED <<heap, envOp, program, pc, index, output, had_runtime_error, trace,
                tokens, parseOp, valueOp, scanOp>>

InitRes ==
    /\ scopes = << >> /\ locals = EmptyLocals /\ resOp = NoOp
    /\ heap = EnvInitHeap /\ envOp = NoOp
    /\ program = << >> /\ pc = "res" /\ index = 0 /\ output = << >>
    /\ had_runtime_error = FALSE /\ trace = {}
    /\ tokens = << >> /\ parseOp = NoOp
    /\ valueOp = NoOp /\ scanOp = NoOp

NextRes ==
    \/ ResBeginScope /\ ResUnchanged
    \/ ResEndScope /\ ResUnchanged
    \/ ResDeclare /\ ResUnchanged
    \/ ResDefine /\ ResUnchanged
    \/ ResResolveLocal /\ ResUnchanged
    \/ ResVar /\ ResUnchanged

SpecRes == InitRes /\ [][NextRes]_vars

\* The scopes to skip, from the innermost, to reach each scope holding name
ScopesHolding(name) ==
    {k \in 0..(Len(scopes) - 1) : name \in DOMAIN scopes[Len(scopes) - k]}

\* C3: resolve_local records, for a name found in the scope stack, the number
\* of scopes between the innermost scope and the innermost scope holding the
\* name (0 when the innermost scope holds it); when no scope holds the name
\* nothing is recorded.
C3_ResolveLocalRecordsHops ==
    resOp.op = "resolve_local" =>
        IF ScopesHolding(resOp.name) # {}
        THEN \A key \in ExprName(resOp.expr) :
                /\ key \in DOMAIN locals
                /\ locals[key] = MinOf(ScopesHolding(resOp.name))
        ELSE locals = resOp.locals

\* C7: recording a distance for one variable-reference expression changes
\* neither the distance nor the absence of an entry of any other expression,
\* one that uses the same identifier included.
C7_EntriesBelongToUseSites ==
    resOp.op = "resolve_local" =>
        \A other \in ResExprs \ {resOp.expr} :
            TableEntry(locals, other) = TableEntry(resOp.locals, other)

-----------------------------------------------------------------------------
(* Properties of a run (Spec). trace holds the events of the statement     *)
(* interpret_stmt ran last.                                                *)

Calls == {e \in trace : e.ev = "call"}
Blocks == {e \in trace : e.ev = "execute_block"}
Reads == {e \in trace : e.ev = "variable"}
Writes == {e \in trace : e.ev = "assign"}
Ended == pc \in {"exit0", "exit65", "exit70", "panic"}

\* C1: a call of a Function runs its body in a fresh environment whose parent
\* is the function's closure, so the closures of makeCounter count: the
\* program ends normally having printed 1, 2, 3.
C1_CallRunsInClosure ==
    /\ \A c \in Calls : c.enclosing = c.closure
    /\ (program = MakeCounter /\ Ended) =>
            (pc = "exit0" /\ output = <<Number(1), Number(2), Number(3)>>)

\* C2: a call whose body ends normally evaluates to Nil, a call whose body
\* ends with the Return signal evaluates to the returned value, and any other
\* error of the body is the call's result.
C2_CallResultFollowsBody ==
    \A c \in Calls :
        c.res = IF c.body.ok THEN Ok(Nil)
                ELSE IF c.body.err.kind = "Return" THEN Ok(c.body.err.value)
                ELSE c.body

\* C4: whenever a Variable or Assign expression is evaluated with a distance
\* d from the table, the current environment has at least d enclosing frames
\* and the frame d hops up binds the name.
C4_TableDistanceIsValid ==
    \A e \in Reads \cup Writes : \A d \in e.entry :
        /\ d <= Depth(e.heap, e.environment)
        /\ e.name \in DOMAIN e.heap[Hop(e.heap, e.environment, d)].values

\* C6: execute_block leaves the interpreter's environment as it found it,
\* whether the block ended normally, with an error or with Return.
C6_BlockRestoresEnvironment ==
    \A b \in Blocks : b.after = b.before

C6_Witness ==
    /\ \E b \in Blocks : b.exit = "return" /\ b.before # Globals /\ b.env # b.before
    /\ \E b \in Blocks : b.exit = "error" /\ b.env # b.before
    /\ \E b \in Blocks : b.exit = "normal" /\ b.env # b.before

\* the value Environment::get hands out for a binding
Bound(frame, name) ==
    IF frame.values[name] = None THEN Nil ELSE frame.values[name]

\* C8: a Variable or Assign expression without a table entry is read from,
\* or written to, the globals frame only, whatever the current environment:
\* the read is the globals' binding or UndefinedVariable, and the write
\* changes nothing but the globals' binding of the name.
C8_NoEntryMeansGlobalsOnly ==
    /\ \A e \in Reads : e.entry = {} =>
            e.res = IF e.name \in DOMAIN e.heap[Globals].values
                    THEN Ok(Bound(e.heap[Globals], e.name))
                    ELSE Err(UndefinedVariable(e.name))
    /\ \A e \in Writes : e.entry = {} =>
            /\ Len(e.after) = Len(e.heap)
            /\ \A i \in 1..Len(e.heap) : i # Globals => e.after[i] = e.heap[i]
            /\ e.after[Globals].enclosing = e.heap[Globals].enclosing
            /\ DOMAIN e.after[Globals].values = DOMAIN e.heap[Globals].values
            /\ \A n \in DOMAIN e.heap[Globals].values :
                    e.after[Globals].values[n] =
                        IF n = e.name THEN e.res.v ELSE e.heap[Globals].values[n]

C8_Witness ==
    /\ \E e \in Writes :
            /\ e.entry = {}
            /\ e.environment # Globals
            /\ e.name \in DOMAIN e.heap[e.environment].values
    /\ \E e \in Writes :
            /\ e.entry = {}
            /\ e.environment # Globals
            /\ e.name \in DOMAIN e.heap[Globals].values
            /\ e.after[Globals].values[e.name] # e.heap[Globals].values[e.name]
    /\ \E e \in Reads :
            /\ e.entry = {}
            /\ e.environment # Globals
            /\ e.name \in DOMAIN e.heap[Globals].values
            /\ e.res = Ok(Number(4))

\* C9: an assignment to a name that no frame reachable by the lookup rule
\* binds fails with UndefinedVariable, the run stops with had_runtime_error
\* set, and no binding is created.
C9_AssignToUnboundFails ==
    \A e \in Writes :
        (e.entry = {} /\ e.name \notin DOMAIN e.heap[Globals].values) =>
            /\ e.stored = Err(UndefinedVariable(e.name))
            /\ e.after = e.heap
            /\ e.res = e.stored
            /\ had_runtime_error
            /\ pc = "exit70"

\* the statement interpret_stmt is about to run raises a runtime error
NextStatementFails ==
    /\ pc = "interpret"
    /\ index <= Len(program)
    /\ \E now \in ClockValues : ~ExecuteOnClone(World(now), program[index]).res.ok

\* C11: interpret_stmt runs the statements in order; the first statement
\* that raises a runtime error sets had_runtime_error and nothing is run
\* after it; the flag is false until then and is never reset.
C11_FirstErrorStopsAndSticks ==
    /\ [](pc \in {"resolve", "interpret", "exit0", "exit65"} => ~had_runtime_error)
    /\ [][/\ had_runtime_error => had_runtime_error'
          /\ index' = index \/ (index' = index + 1 /\ ~NextStatementFails)
          /\ NextStatementFails =>
                (had_runtime_error' /\ index' = index /\ pc' # "interpret")
          /\ had_runtime_error => UNCHANGED <<heap, output, index>>]_vars

C11_Witness ==
    /\ had_runtime_error
    /\ index = 2
    /\ Len(program) = 2
    /\ output # << >>

\* C12: the interpreter runs no statement unless resolution completed
\* without an error; a static error ends the run with exit code 65, a runtime
\* error with 70, a program without errors with 0, and there is no other end.
C12_PipelineExitCodes ==
    /\ (index > 1 \/ output # << >> \/ trace # {} \/ heap # InitHeap) =>
            ~Resolve(EmptyLocals, program).had_error
    /\ Ended =>
            /\ pc \in {"exit0", "exit65", "exit70"}
            /\ pc = "exit65" <=> Resolve(EmptyLocals, program).had_error
            /\ pc = "exit70" <=> had_runtime_error
            /\ pc = "exit0" => index = Len(program) + 1

-----------------------------------------------------------------------------
(* Properties of the resolver's operations (SpecRes), continued.           *)

RECURSIVE ExprReads(_)
\* the names an expression reads
ExprReads(expr) ==
    CASE expr.k = "Variable" -> {expr.name}
      [] expr.k = "Assign" -> ExprReads(expr.value)
      [] expr.k \in {"Binary", "Logical"} -> ExprReads(expr.left) \cup ExprReads(expr.right)
      [] expr.k \in {"Grouping"} -> ExprReads(expr.e)
      [] expr.k = "Unary" -> ExprReads(expr.right)
      [] expr.k = "Call" ->
            ExprReads(expr.callee) \cup
            UNION {ExprReads(expr.arguments[i]) : i \in 1..Len(expr.arguments)}
      [] OTHER -> {}

\* the names the initializer of the last Stmt::Var reads
InitializerReads ==
    IF resOp.initializer = << >> THEN {} ELSE ExprReads(resOp.initializer[1])

\* the innermost scope before the last operation
InnermostBefore == resOp.scopes[Len(resOp.scopes)]

SelfReadError(res) ==
    /\ ~res.ok
    /\ res.err.kind = "LocalVarReadWhileInitialized"

\* resolve_block, run on the last Stmt::Var in the scopes it found, marks
\* the resolver as failed, which is what makes the driver exit with 65
LastVarMarksResolver ==
    ResolveBlock([ResState EXCEPT !.scopes = resOp.scopes],
                 <<VarStmt(resOp.name, resOp.initializer)>>, 1).had_error

\* C13 as stated: in a non-global scope a declaration whose initializer
\* reads the declared variable is rejected with LocalVarReadWhileInitialized;
\* at global scope it is no static error; a read of a fully defined variable
\* of the innermost scope is not rejected.
C13_SelfReadRejected ==
    resOp.op = "var" =>
        /\ (Len(resOp.scopes) > 0 /\ resOp.name \in InitializerReads) =>
                /\ SelfReadError(resOp.res) /\ resOp.res.err.name = resOp.name
                /\ LastVarMarksResolver
        /\ Len(resOp.scopes) = 0 => (resOp.res.ok /\ ~LastVarMarksResolver)
        /\ (/\ Len(resOp.scopes) > 0
            /\ \A n \in InitializerReads :
                    n \in DOMAIN InnermostBefore /\ InnermostBefore[n]) =>
                ~SelfReadError(resOp.res)

\* C13 amended: the rejection with LocalVarReadWhileInitialized is that of a
\* declaration whose name the innermost scope does not hold yet; when the
\* innermost scope already holds the name the declaration is rejected with
\* RedefiningLocalVar and the initializer is not looked at.
C13_SelfReadRejectedOnFirstDeclaration ==
    resOp.op = "var" =>
        /\ (/\ Len(resOp.scopes) > 0
            /\ resOp.name \notin DOMAIN InnermostBefore
            /\ resOp.name \in InitializerReads) =>
                /\ SelfReadError(resOp.res) /\ resOp.res.err.name = resOp.name
                /\ scopes[Len(scopes)][resOp.name] = FALSE
                /\ LastVarMarksResolver
        /\ (Len(resOp.scopes) > 0 /\ resOp.name \in DOMAIN InnermostBefore) =>
                /\ resOp.res = StaticError("RedefiningLocalVar", resOp.name)
                /\ scopes = resOp.scopes
                /\ LastVarMarksResolver
        /\ Len(resOp.scopes) = 0 => (resOp.res.ok /\ ~LastVarMarksResolver)
        /\ (/\ Len(resOp.scopes) > 0
            /\ \A n \in InitializerReads :
                    n \in DOMAIN InnermostBefore /\ InnermostBefore[n]) =>
                ~SelfReadError(resOp.res)

C13_Witness ==
    /\ resOp.op = "var"
    /\ Len(resOp.scopes) = 2
    /\ resOp.name \in DOMAIN resOp.scopes[1]
    /\ resOp.scopes[1][resOp.name] = TRUE
    /\ resOp.name \notin DOMAIN InnermostBefore
    /\ resOp.name \in InitializerReads
    /\ SelfReadError(resOp.res)

\* C14: declare fails with RedefiningLocalVar exactly when the innermost
\* scope of a non-empty stack already holds the name, and then leaves the
\* stack as it was; with an empty stack it never fails and records nothing;
\* a name held by an outer scope only is declared in the innermost scope.
C14_DeclareRejectsInnermostDuplicate ==
    resOp.op = "declare" =>
        /\ ~resOp.res.ok <=>
                (Len(resOp.scopes) > 0 /\ resOp.name \in DOMAIN InnermostBefore)
        /\ ~resOp.res.ok =>
                /\ resOp.res = StaticError("RedefiningLocalVar", resOp.name)
                /\ scopes = resOp.scopes
        /\ Len(resOp.scopes) = 0 => scopes = << >>
        /\ (resOp.res.ok /\ Len(resOp.scopes) > 0) =>
                /\ Len(scopes) = Len(resOp.scopes)
                /\ \A i \in 1..(Len(scopes) - 1) : scopes[i] = resOp.scopes[i]
                /\ DOMAIN scopes[Len(scopes)] =
                        DOMAIN InnermostBefore \cup {resOp.name}
                /\ scopes[Len(scopes)][resOp.name] = FALSE
                /\ \A n \in DOMAIN InnermostBefore :
                        scopes[Len(scopes)][n] = InnermostBefore[n]

C14_Witness ==
    /\ resOp.op = "declare"
    /\ Len(resOp.scopes) = 2
    /\ resOp.name \in DOMAIN resOp.scopes[1]
    /\ resOp.name \notin DOMAIN resOp.scopes[2]
    /\ resOp.res.ok
    /\ resOp.name \in DOMAIN scopes[2]

-----------------------------------------------------------------------------
(* Properties of a run (Spec), continued.                                  *)

RECURSIVE ReturnsOutside(_, _)
\* the number of return statements of stmts[i..] that are in no function body
ReturnsOutside(stmts, i) ==
    IF i > Len(stmts) THEN 0
    ELSE ReturnsOutside(stmts, i + 1) +
         CASE stmts[i].k = "Return" -> 1
           [] stmts[i].k = "Block" -> ReturnsOutside(stmts[i].stmts, 1)
           [] stmts[i].k = "While" -> ReturnsOutside(<<stmts[i].body>>, 1)
           [] stmts[i].k = "If" ->
                ReturnsOutside(<<stmts[i].then_branch>> \o stmts[i].else_branch, 1)
           [] OTHER -> 0

TopLevelReturnReported ==
    \E i \in 1..Len(resOp.errors) : resOp.errors[i].kind = "TopLevelReturn"

\* C15: the resolver rejects a return with TopLevelReturn exactly when the
\* return is in no function body: a program with such a return, however
\* nested in blocks or loops and wherever it stands, gets the error, and a
\* program whose returns are all inside function bodies does not.
C15_TopLevelReturnRejected ==
    resOp.op = "resolve" =>
        (TopLevelReturnReported <=> ReturnsOutside(program, 1) > 0)

\* The resolver as it stands before statement i of the program
ResolverBefore(i) ==
    ResolveBlock(NewResolver(EmptyLocals), SubSeq(program, 1, i - 1), 1)

\* C26: resolving a statement leaves the scope stack at its depth and
\* current_function at its value, also when the statement had a static
\* error; so resolve ends with an empty scope stack and current_function
\* None, and a top-level return after an erroneous function declaration is
\* rejected. (The statements looked at one by one are those of the top
\* level.)
C26_ResolveRestoresScopes ==
    resOp.op = "resolve" =>
        /\ \A i \in 1..Len(program) :
            /\ Len(ResolveStmt(ResolverBefore(i), program[i]).r.scopes) =
                    Len(ResolverBefore(i).scopes)
            /\ ResolveStmt(ResolverBefore(i), program[i]).r.current_function =
                    ResolverBefore(i).current_function
        /\ resOp.scopes = << >>
        /\ resOp.current_function = "None"
        /\ \A i \in 1..Len(program) :
                program[i].k = "Return" => TopLevelReturnReported

\* What statement i of a list adds to the reports: the errors reported
\* inside it, then its own
RECURSIVE ErrorsInTurn(_, _, _)
ErrorsInTurn(R, stmts, i) ==
    IF i > Len(stmts) THEN << >>
    ELSE SubSeq(ResolveStmt(R, stmts[i]).r.errors, Len(R.errors) + 1,
                Len(ResolveStmt(R, stmts[i]).r.errors))
         \o (IF ResolveStmt(R, stmts[i]).res.ok THEN << >>
             ELSE <<ResolveStmt(R, stmts[i]).res.err>>)
         \o ErrorsInTurn([ResolveStmt(R, stmts[i]).r EXCEPT !.errors = << >>],
                         stmts, i + 1)

\* C27: a static error in a statement does not stop resolution: every later
\* statement of the list is resolved and its errors are reported, at top
\* level, in a block ({ return; var s = s; print undef; } gets both errors)
\* and in a function body (fun g() { var s = s; var s; } gets both errors,
\* and the return after it is reported too); resolve returns had_error
\* exactly when an error was reported.
C27_ResolutionContinues ==
    resOp.op = "resolve" =>
        /\ resOp.errors = ErrorsInTurn(NewResolver(EmptyLocals), program, 1)
        /\ resOp.had_error <=> resOp.errors # << >>
        /\ program = BlockOfErrors =>
                resOp.errors = <<[kind |-> "TopLevelReturn", name |-> "return"],
                                 [kind |-> "LocalVarReadWhileInitialized", name |-> "s"]>>
        /\ program = FunctionOfErrors =>
                resOp.errors = <<[kind |-> "LocalVarReadWhileInitialized", name |-> "s"],
                                 [kind |-> "RedefiningLocalVar", name |-> "s"],
                                 [kind |-> "TopLevelReturn", name |-> "return"]>>

\* Two statements of the top level have each had their error reported
C27_Witness ==
    /\ resOp.op = "resolve"
    /\ Len(program) = 2
    /\ ~ResolveStmt(NewResolver(EmptyLocals), program[1]).res.ok
    /\ ~ResolveStmt(ResolverBefore(2), program[2]).res.ok
    /\ Len(resOp.errors) = 2

-----------------------------------------------------------------------------
(* Expr::Logical and Expr::Call, under Spec                                *)

Logicals == {e \in trace : e.ev = "logical"}

\* C19: in `a or b` with a truthy, and in `a and b` with a falsey, b is not
\* evaluated (the frames and the output are as a left them) and the result
\* is the value of a itself; otherwise b is evaluated and the result is
\* what b gives, value or error, as it is.
C19_LogicalShortCircuits ==
    \A e \in Logicals :
        IF (e.op = "or" /\ IsTruthy(e.left)) \/ (e.op = "and" /\ ~IsTruthy(e.left))
        THEN e.right = << >> /\ e.res = Ok(e.left) /\ e.after = e.before
        ELSE e.right = <<e.res>>

\* S_Logical has run: both short circuits, a right operand that is a String
\* and one that is a Number were returned as they are, and the last right
\* operand's error ended the statement
C19_Witness ==
    /\ output = <<Number(1), Nil, String("a"), Number(2)>>
    /\ had_runtime_error
    /\ \E e \in Logicals : e.op = "or" /\ e.left = Number(1) /\ e.right = << >>
    /\ \E e \in Logicals : e.op = "and" /\ e.left = Nil /\ e.right = << >>
    /\ \E e \in Logicals : e.op = "or" /\ e.left = Nil /\ e.res = Ok(String("a"))
    /\ \E e \in Logicals : e.op = "and" /\ e.left = Number(1) /\ ~e.res.ok

CallExprs == {e \in trace : e.ev = "call_expr"}

\* C20: a call whose callee is not a Callable fails with NotCallable before
\* any argument is evaluated; a call of a Callable whose arguments evaluate
\* fails with InvalidCountOfArguments when their number is not the arity;
\* in both failures nothing happens after the arguments.
C20_CallOrder ==
    \A e \in CallExprs :
        /\ ~IsCallable(e.callee) =>
                e.res = ValueError("NotCallable") /\ e.evaluated = e.before
        /\ (IsCallable(e.callee) /\ e.arguments.ok
                /\ Len(e.arguments.values) # Arity(e.callee)) =>
                e.res = ValueError("InvalidCountOfArguments")
        /\ (~e.res.ok /\ e.res.err.kind \in {"NotCallable", "InvalidCountOfArguments"}) =>
                e.after = e.evaluated

-----------------------------------------------------------------------------
(* The parser: parser/mod.rs. A token is [type, lexeme, literal, line]; a  *)
(* parser state p is [tokens, current], current counting from 0 as in the  *)
(* code. Each parsing operator returns [p, res]: the parser after it and   *)
(* Ok(node) or Err(error).                                                 *)

Token(type, lexeme, literal, line) ==
    [type |-> type, lexeme |-> lexeme, literal |-> literal, line |-> line]

ParseError(kind, token, message) ==
    Err([kind |-> kind, token |-> token, message |-> message])

MaxArguments == 255

Peek(p) == p.tokens[p.current + 1]

IsEnd(p) == Peek(p).type = "EOF"

\* Parser::new, with two records of what the parser did: underflow, that
\* previous() was evaluated with current = 0, and stalled, that a loop went
\* into another turn without a token consumed in the turn before
NewParser(toks) ==
    [tokens |-> toks, current |-> 0, underflow |-> FALSE, stalled |-> FALSE]

\* advance returns previous(), whether it moved or not
Advance(p) ==
    IF IsEnd(p) THEN [p EXCEPT !.underflow = @ \/ p.current = 0]
    ELSE [p EXCEPT !.current = @ + 1]

\* The parser `after` a turn of a loop that began at `before` and goes on
Moved(before, after) ==
    [after EXCEPT !.stalled = @ \/ after.current <= before.current]

Check(p, types) == ~IsEnd(p) /\ Peek(p).type \in types

Consume(p, type, message) ==
    IF Check(p, {type})
    THEN [p |-> Advance(p), res |-> Ok(Peek(p))]
    ELSE [p |-> p, res |-> ParseError("UnexpectedToken", Peek(p), message)]

\* the result r with the parser moved on to where q stopped
At(q, r) == [p |-> q.p, res |-> r.res]

\* the token types of the binary levels: or, and, equality, comparsion,
\* term, factor
OperatorsAt(level) ==
    CASE level = 1 -> {"OR"}
      [] level = 2 -> {"AND"}
      [] level = 3 -> {"BANG_EQUAL", "EQUAL_EQUAL"}
      [] level = 4 -> {"GREATER", "GREATER_EQUAL", "LESS", "LESS_EQUAL"}
      [] level = 5 -> {"MINUS", "PLUS"}
      [] level = 6 -> {"SLASH", "STAR"}

BinaryNode(level, left, operator, right) ==
    IF level <= 2
    THEN Logical(left, operator.lexeme, right)
    ELSE Binary(left, operator.lexeme, right)

\* The ? operator of the parser: an Err result leaves the function at once
PTry(r, K(_)) == IF r.res.ok THEN K(r) ELSE r

\* a result: the node at the parser p
POk(p, node) == [p |-> p, res |-> Ok(node)]

RECURSIVE PExpression(_)
RECURSIVE PAssignment(_)
RECURSIVE PBinary(_, _)
RECURSIVE PBinaryLoop(_, _)
RECURSIVE PBinaryClimb(_, _, _)
RECURSIVE PUnary(_)
RECURSIVE PCallLoop(_)
RECURSIVE PArguments(_, _)
RECURSIVE PPrimary(_)

\* Parser::expression
PExpression(p) == PAssignment(p)

\* the end of Parser::assignment once `=` was matched after an Ok expr:
\* equals is the token, value the assignment parsed after it
PAssignmentEnd(expr, equals, value) ==
    IF expr.res.v.k = "Variable"
    THEN PTry(value, LAMBDA v :
            POk(v.p, AssignExpr(expr.res.v.name, expr.res.v.line, v.res.v)))
    ELSE [p |-> value.p, res |-> ParseError("InvalidAssignmentTarget", equals, "")]

\* an assignment whose value would be parsed one level down, at `or`
PAssignmentRestOr(expr) ==
    IF ~expr.res.ok
    THEN IF Check(expr.p, {"EQUAL"})
         THEN At(PBinary(Advance(expr.p), 1), expr)
         ELSE expr
    ELSE IF Check(expr.p, {"EQUAL"})
    THEN PAssignmentEnd(expr, Peek(expr.p), PBinary(Advance(expr.p), 1))
    ELSE expr

\* Parser::assignment after self.or(): when `=` follows, the value is
\* parsed before `?` looks at expr
PAssignmentRest(expr) ==
    IF ~expr.res.ok
    THEN IF Check(expr.p, {"EQUAL"})
         THEN At(PAssignment(Advance(expr.p)), expr)
         ELSE expr
    ELSE IF Check(expr.p, {"EQUAL"})
    THEN PAssignmentEnd(expr, Peek(expr.p), PAssignment(Advance(expr.p)))
    ELSE expr

\* Parser::assignment
PAssignment(p) == PAssignmentRest(PBinary(p, 1))

\* one turn of the loop of a binary level after an Ok left: right is the
\* operand parsed after the operator
PBinaryStep(level, left, operator, right) ==
    PTry(right, LAMBDA r :
        PBinaryLoop(POk(r.p, BinaryNode(level, left.res.v, operator, r.res.v)),
                    level))

\* the loop of a binary level: when an operator follows, its operand is
\* parsed before `?` looks at what stood before it
PBinaryLoop(left, level) ==
    IF ~left.res.ok
    THEN IF Check(left.p, OperatorsAt(level))
         THEN At(PBinary(Advance(left.p), level + 1), left)
         ELSE left
    ELSE IF Check(left.p, OperatorsAt(level))
    THEN PBinaryStep(level, left, Peek(left.p), PBinary(Advance(left.p), level + 1))
    ELSE left

\* the loops of the binary levels from l up to level, left being what the
\* levels below l made of the operand
PBinaryClimb(left, l, level) ==
    CASE left.res.ok /\ l < level -> left
      [] l < level -> left
      [] OTHER -> PBinaryClimb(PBinaryLoop(left, l), l - 1, level)

\* Parser::or (level 1), and, equality, comparsion, term, factor (level 6):
\* each level starts with the level below it, so the descent reaches unary
\* first, and the loops of the levels follow from factor upwards
PBinary(p, level) == PBinaryClimb(PUnary(p), 6, level)

\* the end of Parser::finish_call, a being the arguments
PFinishCallEnd(callee, a) ==
    PTry(a, LAMBDA arguments :
    PTry(Consume(arguments.p, "RIGHT_PAREN", "Expect ')' after arguments."),
         LAMBDA paren : POk(paren.p, Call(callee, arguments.res.v))))

\* Parser::finish_call
PFinishCall(p, callee) ==
    IF Check(p, {"RIGHT_PAREN"})
    THEN PFinishCallEnd(callee, POk(p, << >>))
    ELSE PFinishCallEnd(callee, PArguments(p, << >>))

\* the argument loop of Parser::finish_call
PArguments(p, arguments) ==
    IF Len(arguments) >= MaxArguments
    THEN [p |-> p, res |-> ParseError("TooManyArguments", Peek(p), "")]
    ELSE PTry(PExpression(p), LAMBDA e :
            IF Check(e.p, {"COMMA"})
            THEN PArguments(Moved(p, Advance(e.p)), Append(arguments, e.res.v))
            ELSE POk(e.p, Append(arguments, e.res.v)))

\* the loop of Parser::call: `(` is matched before `?` looks at expr
\* the turn of call's loop that began at p: finish_call has returned r
PCallTurn(p, r) == [p |-> Moved(p, r.p), res |-> r.res]

PCallLoop(expr) ==
    IF ~expr.res.ok
    THEN IF Check(expr.p, {"LEFT_PAREN"})
         THEN [p |-> Advance(expr.p), res |-> expr.res]
         ELSE expr
    ELSE IF Check(expr.p, {"LEFT_PAREN"})
    THEN PCallLoop(PCallTurn(expr.p, PFinishCall(Advance(expr.p), expr.res.v)))
    ELSE expr

\* Parser::call
PCall(p) == PCallLoop(PPrimary(p))

\* Parser::unary
PUnaryEnd(operator, right) ==
    PTry(right, LAMBDA r : POk(r.p, Unary(operator.lexeme, r.res.v)))

PUnary(p) ==
    IF Check(p, {"BANG", "MINUS"})
    THEN PUnaryEnd(Peek(p), PUnary(Advance(p)))
    ELSE PCall(p)

\* a grouping after its expression: the `)` is consumed with `?` before
\* `?` looks at expr
PGrouping(expr) ==
    IF expr.res.ok
    THEN PTry(Consume(expr.p, "RIGHT_PAREN", "Expect ')' after expression."),
              LAMBDA paren : POk(paren.p, Grouping(expr.res.v)))
    ELSE PTry(Consume(expr.p, "RIGHT_PAREN", "Expect ')' after expression."),
              LAMBDA paren : At(paren, expr))

\* Parser::primary
PPrimary(p) ==
    CASE Check(p, {"FALSE"}) -> POk(Advance(p), Literal(Boolean(FALSE)))
      [] Check(p, {"TRUE"}) -> POk(Advance(p), Literal(Boolean(TRUE)))
      [] Check(p, {"NIL"}) -> POk(Advance(p), Literal(Nil))
      [] Check(p, {"NUMBER", "STRING"}) -> POk(Advance(p), Literal(Peek(p).literal))
      [] Check(p, {"IDENTIFIER"}) ->
            POk(Advance(p), Variable(Peek(p).lexeme, Peek(p).line))
      [] Check(p, {"LEFT_PAREN"}) -> PGrouping(PExpression(Advance(p)))
      [] OTHER -> [p |-> p, res |-> ParseError("ExpectExpression", Peek(p), "")]

\* Parser::parse_expr: [p, res, had_error, errors], errors being the
\* diagnostics Parser::error reported
ParseExprEnd(r) ==
    [p |-> r.p, res |-> r.res, had_error |-> ~r.res.ok,
     errors |-> IF r.res.ok THEN << >> ELSE <<r.res.err>>]

ParseExpr(toks) == ParseExprEnd(PExpression(NewParser(toks)))

Previous(p) == p.tokens[p.current]

StatementKeywords == {"CLASS", "FUN", "VAR", "FOR", "IF", "WHILE", "PRINT", "RETURN"}

RECURSIVE SynchronizeLoop(_)
SynchronizeLoop(p) ==
    IF IsEnd(p) THEN p
    ELSE IF Previous(p).type = "SEMICOLON" THEN p
    ELSE IF Peek(p).type \in StatementKeywords THEN p
    ELSE SynchronizeLoop(Moved(p, Advance(p)))

\* Parser::synchronize
Synchronize(p) == SynchronizeLoop(Advance(p))

RECURSIVE PDeclaration(_)
RECURSIVE PStatement(_)
RECURSIVE PBlockLoop(_, _)
RECURSIVE PParams(_, _)

\* Parser::var_declaration, after `var`
PVarDeclarationEnd(name, initializer, semicolon) ==
    PTry(semicolon, LAMBDA t : POk(t.p, VarStmt(name.lexeme, initializer)))

PVarDeclaration(p) ==
    PTry(Consume(p, "IDENTIFIER", "Expect variable name."), LAMBDA name :
        IF Check(name.p, {"EQUAL"})
        THEN PTry(PExpression(Advance(name.p)), LAMBDA e :
                PVarDeclarationEnd(name.res.v, <<e.res.v>>,
                    Consume(e.p, "SEMICOLON", "Expect ';' after variable declaration.")))
        ELSE PVarDeclarationEnd(name.res.v, << >>,
                Consume(name.p, "SEMICOLON", "Expect ';' after variable declaration.")))

\* Parser::expression_statement
PExpressionStatementRest(expr) ==
    IF expr.res.ok
    THEN PTry(Consume(expr.p, "SEMICOLON", "Expect ';' after expression."),
              LAMBDA t : POk(t.p, ExpressionStmt(expr.res.v)))
    ELSE PTry(Consume(expr.p, "SEMICOLON", "Expect ';' after expression."),
              LAMBDA t : At(t, expr))

PExpressionStatement(p) == PExpressionStatementRest(PExpression(p))

\* Parser::print_statement, after `print`
PPrintStatementRest(value) ==
    IF value.res.ok
    THEN PTry(Consume(value.p, "SEMICOLON", "Expect ';' after value."),
              LAMBDA t : POk(t.p, PrintStmt(value.res.v)))
    ELSE PTry(Consume(value.p, "SEMICOLON", "Expect ';' after value."),
              LAMBDA t : At(t, value))

PPrintStatement(p) == PPrintStatementRest(PExpression(p))

\* Parser::return_statement, after `return`
PReturnStatementEnd(value, semicolon) ==
    PTry(semicolon, LAMBDA t : POk(t.p, ReturnStmt(value)))

PReturnStatement(p) ==
    IF ~Check(p, {"SEMICOLON"})
    THEN PTry(PExpression(p), LAMBDA e :
            PReturnStatementEnd(<<e.res.v>>,
                Consume(e.p, "SEMICOLON", "Expect ';' after return value.")))
    ELSE PReturnStatementEnd(<< >>,
            Consume(p, "SEMICOLON", "Expect ';' after return value."))

\* Parser::block, after `{`
PBlockLoop(p, statements) ==
    IF ~Check(p, {"RIGHT_BRACE"}) /\ ~IsEnd(p)
    THEN PTry(PDeclaration(p), LAMBDA d :
            PBlockLoop(Moved(p, d.p), Append(statements, d.res.v)))
    ELSE PTry(Consume(p, "RIGHT_BRACE", "Expect '}' after block."), LAMBDA t :
            POk(t.p, statements))

PBlock(p) == PBlockLoop(p, << >>)

\* Parser::while_statement, after `while`: condition and body are looked at
\* with `?` once both are parsed
PWhileStatementEnd(condition, body) ==
    IF ~condition.res.ok THEN At(body, condition)
    ELSE PTry(body, LAMBDA b : POk(b.p, WhileStmt(condition.res.v, b.res.v)))

PWhileStatementCondition(condition) ==
    PTry(Consume(condition.p, "RIGHT_PAREN", "Expect ')' after condition."),
         LAMBDA t : PWhileStatementEnd(condition, PStatement(t.p)))

PWhileStatement(p) ==
    PTry(Consume(p, "LEFT_PAREN", "Expect '(' after 'while'."), LAMBDA t :
        PWhileStatementCondition(PExpression(t.p)))

\* Parser::if_statement, after `if`
PIfStatementEnd(condition, then_branch, else_branch, q) ==
    IF ~condition.res.ok THEN [p |-> q, res |-> condition.res]
    ELSE IF ~then_branch.res.ok THEN [p |-> q, res |-> then_branch.res]
    ELSE POk(q, IfStmt(condition.res.v, then_branch.res.v, else_branch))

PIfStatementElse(condition, then_branch) ==
    IF Check(then_branch.p, {"ELSE"})
    THEN PTry(PStatement(Advance(then_branch.p)), LAMBDA e :
            PIfStatementEnd(condition, then_branch, <<e.res.v>>, e.p))
    ELSE PIfStatementEnd(condition, then_branch, << >>, then_branch.p)

PIfStatementCondition(condition) ==
    PTry(Consume(condition.p, "RIGHT_PAREN", "Expect ')' after condition."),
         LAMBDA t : PIfStatementElse(condition, PStatement(t.p)))

PIfStatement(p) ==
    PTry(Consume(p, "LEFT_PAREN", "Expect '(' after 'if'."), LAMBDA t :
        PIfStatementCondition(PExpression(t.p)))

\* Parser::for_statement: what is built from the clauses and the body
ForWithIncrement(increment, body) ==
    IF increment # << >>
    THEN BlockStmt(<<body, ExpressionStmt(increment[1])>>)
    ELSE body

ForWithInitializer(initializer, loop) ==
    IF initializer # << >> THEN BlockStmt(<<initializer[1], loop>>) ELSE loop

Desugar(initializer, condition, increment, body) ==
    ForWithInitializer(initializer,
        WhileStmt(condition, ForWithIncrement(increment, body)))

\* Parser::for_statement, after `for`
PForBody(initializer, condition, increment, paren) ==
    PTry(paren, LAMBDA t :
    PTry(PStatement(t.p), LAMBDA body :
        POk(body.p, Desugar(initializer, condition, increment, body.res.v))))

PForIncrement(initializer, condition, semicolon) ==
    PTry(semicolon, LAMBDA t :
        IF ~Check(t.p, {"RIGHT_PAREN"})
        THEN PTry(PExpression(t.p), LAMBDA e :
                PForBody(initializer, condition, <<e.res.v>>,
                    Consume(e.p, "RIGHT_PAREN", "Expect ')' after for clauses.")))
        ELSE PForBody(initializer, condition, << >>,
                Consume(t.p, "RIGHT_PAREN", "Expect ')' after for clauses.")))

PForCondition(initializer, p) ==
    IF ~Check(p, {"SEMICOLON"})
    THEN PTry(PExpression(p), LAMBDA e :
            PForIncrement(initializer, e.res.v,
                Consume(e.p, "SEMICOLON", "Expect ';' after loop condition.")))
    ELSE PForIncrement(initializer, Literal(Boolean(TRUE)),
            Consume(p, "SEMICOLON", "Expect ';' after loop condition."))

PForInitializer(p) ==
    IF Check(p, {"SEMICOLON"}) THEN PForCondition(<< >>, Advance(p))
    ELSE IF Check(p, {"VAR"})
    THEN PTry(PVarDeclaration(Advance(p)), LAMBDA i : PForCondition(<<i.res.v>>, i.p))
    ELSE PTry(PExpressionStatement(p), LAMBDA i : PForCondition(<<i.res.v>>, i.p))

PForStatement(p) ==
    PTry(Consume(p, "LEFT_PAREN", "Expect '(' after 'for'."), LAMBDA t :
        PForInitializer(t.p))

\* Parser::statement
PStatement(p) ==
    CASE Check(p, {"FOR"}) -> PForStatement(Advance(p))
      [] Check(p, {"IF"}) -> PIfStatement(Advance(p))
      [] Check(p, {"PRINT"}) -> PPrintStatement(Advance(p))
      [] Check(p, {"RETURN"}) -> PReturnStatement(Advance(p))
      [] Check(p, {"WHILE"}) -> PWhileStatement(Advance(p))
      [] Check(p, {"LEFT_BRACE"}) ->
            PTry(PBlock(Advance(p)), LAMBDA b : POk(b.p, BlockStmt(b.res.v)))
      [] OTHER -> PExpressionStatement(p)

\* the parameter loop of Parser::function
PParams(p, params) ==
    IF Len(params) >= MaxArguments
    THEN [p |-> p, res |-> ParseError("TooManyArguments", Peek(p), "")]
    ELSE PTry(Consume(p, "IDENTIFIER", "Expect parameter name."), LAMBDA t :
            IF Check(t.p, {"COMMA"})
            THEN PParams(Moved(p, Advance(t.p)), Append(params, t.res.v.lexeme))
            ELSE POk(t.p, Append(params, t.res.v.lexeme)))

\* Parser::function, after `fun`
PFunctionBody(name, params) ==
    PTry(Consume(params.p, "RIGHT_PAREN", "Expect ')' after parameters."), LAMBDA t :
    PTry(Consume(t.p, "LEFT_BRACE", "Expect '{' before function body."), LAMBDA b :
    PTry(PBlock(b.p), LAMBDA body :
        POk(body.p, FunctionStmt(name.lexeme, params.res.v, body.res.v)))))

PFunction(p) ==
    PTry(Consume(p, "IDENTIFIER", "Expect function name."), LAMBDA name :
    PTry(Consume(name.p, "LEFT_PAREN", "Expect '(' after function name."), LAMBDA t :
        IF ~Check(t.p, {"RIGHT_PAREN"})
        THEN PTry(PParams(t.p, << >>), LAMBDA params :
                PFunctionBody(name.res.v, params))
        ELSE PFunctionBody(name.res.v, POk(t.p, << >>))))

\* Parser::declaration: an Err synchronizes before it is returned
PDeclarationEnd(stmt) ==
    IF stmt.res.ok THEN stmt ELSE [p |-> Synchronize(stmt.p), res |-> stmt.res]

\* A declaration that takes a `;` for an empty statement, and tests for it
\* with check where matches would have consumed it
PDeclarationEmpty(p) ==
    PDeclarationEnd(CASE Check(p, {"FUN"}) -> PFunction(Advance(p))
                      [] Check(p, {"VAR"}) -> PVarDeclaration(Advance(p))
                      [] Check(p, {"SEMICOLON"}) -> POk(p, ExpressionStmt(Literal(Nil)))
                      [] OTHER -> PStatement(p))

PDeclaration(p) ==
    PDeclarationEnd(CASE Check(p, {"FUN"}) -> PFunction(Advance(p))
                      [] Check(p, {"VAR"}) -> PVarDeclaration(Advance(p))
                      [] OTHER -> PStatement(p))

\* Parser::parse_stmt: [p, res, had_error, errors], errors being the
\* diagnostics Parser::error reported
RECURSIVE ParseStmtLoop(_, _)
ParseStmtNext(stmt, stmts) ==
    IF stmt.res.ok
    THEN ParseStmtLoop(stmt.p, Append(stmts, stmt.res.v))
    ELSE [p |-> stmt.p, res |-> stmt.res, had_error |-> TRUE,
          errors |-> <<stmt.res.err>>]

\* the turn of parse_stmt's loop that began at p: declaration has returned r
ParseStmtTurned(p, r) == IF r.res.ok THEN [p |-> Moved(p, r.p), res |-> r.res] ELSE r

\* A loop that would go into a turn at EOF as well
ParseStmtLoopAtEnd(p, stmts) ==
    ParseStmtNext(ParseStmtTurned(p, PDeclaration(p)), stmts)

ParseStmtLoop(p, stmts) ==
    IF IsEnd(p)
    THEN [p |-> p, res |-> Ok(stmts), had_error |-> FALSE, errors |-> << >>]
    ELSE ParseStmtNext(ParseStmtTurned(p, PDeclaration(p)), stmts)

ParseStmt(toks) == ParseStmtLoop(NewParser(toks), << >>)

-----------------------------------------------------------------------------
(* SpecParse: main of examples/quick-dev.rs from the tokens on: parse_stmt, *)
(* then resolve and interpret_stmt as in Spec; and parse_expr on the same  *)
(* tokens. The tokens are those the scanner makes of a sequence of         *)
(* lexemes, one lexeme per line.                                           *)

MaxTokens == 3

Keywords ==
    [and |-> "AND", class |-> "CLASS", else |-> "ELSE", false |-> "FALSE",
     for |-> "FOR", fun |-> "FUN", if |-> "IF", nil |-> "NIL", or |-> "OR",
     print |-> "PRINT", return |-> "RETURN", super |-> "SUPER", this |-> "THIS",
     true |-> "TRUE", var |-> "VAR", while |-> "WHILE"]

Punctuation ==
    ("(" :> "LEFT_PAREN") @@ (")" :> "RIGHT_PAREN") @@ ("{" :> "LEFT_BRACE")
    @@ ("}" :> "RIGHT_BRACE") @@ ("," :> "COMMA") @@ ("-" :> "MINUS")
    @@ ("+" :> "PLUS") @@ (";" :> "SEMICOLON") @@ ("*" :> "STAR")
    @@ ("=" :> "EQUAL") @@ ("<" :> "LESS")

Digits == ("0" :> 0) @@ ("1" :> 1) @@ ("2" :> 2)

\* Scanner::scan_token for one lexeme
ScanToken(lexeme, line) ==
    IF lexeme \in DOMAIN Punctuation THEN Token(Punctuation[lexeme], lexeme, None, line)
    ELSE IF lexeme \in DOMAIN Digits
    THEN Token("NUMBER", lexeme, Number(Digits[lexeme]), line)
    ELSE IF lexeme \in DOMAIN Keywords THEN Token(Keywords[lexeme], lexeme, None, line)
    ELSE Token("IDENTIFIER", lexeme, None, line)

\* Scanner::scan_tokens: the tokens of the lexemes, then EOF
ScanTokens(lexemes) ==
    [i \in 1..(Len(lexemes) + 1) |->
        IF i <= Len(lexemes) THEN ScanToken(lexemes[i], i)
        ELSE Token("EOF", "", None, i)]

Alphabet == {"a", "b", "1", "=", "(", ")", ";", "print", "-", "+", "var"}

RECURSIVE LexemesOfLength(_)
LexemesOfLength(n) ==
    IF n = 0 THEN {<< >>}
    ELSE {Append(l, x) : l \in LexemesOfLength(n - 1), x \in Alphabet}

ShortSources == UNION {LexemesOfLength(n) : n \in 0..MaxTokens}

\* the clauses of a for statement; << >> is an absent clause
Initializers == {<< >>, <<"var", "i", "=", "0">>, <<"a", "=", "1">>}
Conditions == {<< >>, <<"i", "<", "2">>, <<"a", "<", "2">>}
Increments == {<< >>, <<"i", "=", "i", "+", "1">>, <<"a", "=", "a", "+", "1">>}
Bodies ==
    {<<"print", "a", ";">>, <<"print", "i", ";">>,
     <<"a", "=", "a", "+", "1", ";">>, <<"i", "=", "i", "+", "1", ";">>}

ForClauses ==
    [initializer : Initializers, condition : Conditions,
     increment : Increments, body : Bodies]

\* the outer variable the loops are run with
Prelude == <<"var", "a", "=", "0", ";">>

\* var a = 0; for (initializer; condition; increment) body
ForSource(c) ==
    Prelude \o <<"for", "(">>
        \o (IF c.initializer = << >> THEN <<";">> ELSE c.initializer \o <<";">>)
        \o c.condition \o <<";">> \o c.increment \o <<")">> \o c.body

\* var a = 0; { initializer; while (condition) { body increment; } }
WhileSource(c) ==
    Prelude \o <<"{">>
        \o (IF c.initializer = << >> THEN << >> ELSE c.initializer \o <<";">>)
        \o <<"while", "(">>
        \o (IF c.condition = << >> THEN <<"true">> ELSE c.condition)
        \o <<")", "{">> \o c.body
        \o (IF c.increment = << >> THEN << >> ELSE c.increment \o <<";">>)
        \o <<"}", "}">>

\* a = b = 1
RightAssociative == <<"a", "=", "b", "=", "1">>

\* fun f(a, b) { print a; print b; } f(1, 2)(3);
EveryLoop ==
    <<"fun", "f", "(", "a", ",", "b", ")", "{", "print", "a", ";", "print", "b",
      ";", "}", "f", "(", "1", ",", "2", ")", "(", "3", ")", ";">>

\* fun f() { return 1; } print f();
ReturnInCall ==
    <<"fun", "f", "(", ")", "{", "return", "1", ";", "}",
      "print", "f", "(", ")", ";">>

\* fun f() { while (true) { return; } } f();
ReturnInLoop ==
    <<"fun", "f", "(", ")", "{", "while", "(", "true", ")", "{", "return", ";",
      "}", "}", "f", "(", ")", ";">>

\* sources with assignments and with malformed statements
HandSources ==
    {RightAssociative, <<"a", "=", "b", "=", "1", ";">>,
     <<"(", "a", ")", "=", "1">>, <<"a", "(", ")", "=", "1">>,
     <<"-", "a", "=", "1">>, <<"a", "+", "b", "=", "1">>,
     <<"a", "=", "1", "=", "2">>, <<"a", "or", "b", "=", "1">>,
     <<"print", ";", "print", ";">>, <<"print", ";", "print", "1", ";">>,
     <<"print", "1", ";", "print", ";">>,
     <<"var", "=", "1", ";", "var", "=", "2", ";">>,
     <<"print", "1", "1", "print", ")", ";", "a", "=", ";">>,
     <<"{", "print", ";", "}", "print", ";">>, EveryLoop,
     <<"f", "(", "1", ",", ",", ")", ";", "print", "1", ";">>,
     <<"fun", "f", "(", "a", ",", ")", "{", "}">>,
     ReturnInCall, ReturnInLoop, <<"return", "1", ";">>,
     <<"{", "return", ";", "}">>, <<"clock", "(", ")", "+", "1">>}

Sources ==
    {ScanTokens(l) : l \in ShortSources \cup HandSources}
    \cup {ScanTokens(ForSource(c)) : c \in ForClauses}
    \cup {ScanTokens(WhileSource(c)) : c \in ForClauses}

InitParse ==
    /\ tokens \in Sources
    /\ parseOp = NoOp
    /\ valueOp = NoOp /\ scanOp = NoOp
    /\ pc = "parse"
    /\ program = << >>
    /\ index = 1
    /\ heap = InitHeap
    /\ locals = EmptyLocals
    /\ output = << >>
    /\ had_runtime_error = FALSE
    /\ trace = {}
    /\ envOp = NoOp /\ scopes = << >> /\ resOp = NoOp

ParseUnchanged == UNCHANGED <<envOp, scopes, tokens, valueOp, scanOp>>

\* Parser::new(&tokens).parse_stmt(), the exit on had_error, and `stmts?`;
\* r is what parse_stmt returned
ParseStmtResult(r) ==
    /\ parseOp' = [op |-> "parse_stmt", res |-> r.res, had_error |-> r.had_error,
                   errors |-> r.errors, current |-> r.p.current,
                   underflow |-> r.p.underflow, stalled |-> r.p.stalled]
    /\ program' = IF r.res.ok THEN r.res.v ELSE program
    /\ pc' = IF r.had_error THEN "exit65" ELSE "resolve"

ParseStatements ==
    /\ pc = "parse"
    /\ ParseStmtResult(ParseStmt(tokens))
    /\ UNCHANGED <<heap, index, locals, output, had_runtime_error, trace, resOp>>

\* Parser::new(&tokens).parse_expr(); r is what it returned
ParseExprResult(r) ==
    /\ parseOp' = [op |-> "parse_expr", res |-> r.res, had_error |-> r.had_error,
                   errors |-> r.errors, current |-> r.p.current,
                   underflow |-> r.p.underflow, stalled |-> r.p.stalled]
    /\ pc' = "parsed"

ParseExpression ==
    /\ pc = "parse"
    /\ ParseExprResult(ParseExpr(tokens))
    /\ UNCHANGED <<heap, program, index, locals, output, had_runtime_error, trace,
                   resOp>>

\* interpret_expr on the expression parse_expr returned, and the end of
\* evaluate; r is what the expression evaluated to
InterpretExprResult(r) ==
    /\ heap' = r.w.heap
    /\ trace' = r.w.tr
    /\ IF r.res.ok
       THEN /\ output' = Append(r.w.out, r.res.v)
            /\ pc' = "exit0"
            /\ UNCHANGED had_runtime_error
       ELSE /\ had_runtime_error' = TRUE
            /\ output' = r.w.out
            /\ pc' = IF r.res.err.kind = "Return" THEN "panic" ELSE "exit70"

InterpretExpr ==
    /\ pc = "parsed"
    /\ ~parseOp.had_error
    /\ \E now \in ClockValues :
        InterpretExprResult(Evaluate(World(now), parseOp.res.v))
    /\ UNCHANGED <<program, index, locals, resOp>>

NextParse ==
    \/ ParseStatements /\ ParseUnchanged
    \/ ParseExpression /\ ParseUnchanged
    \/ InterpretExpr /\ ParseUnchanged /\ UNCHANGED parseOp
    \/ RunResolve /\ ParseUnchanged /\ UNCHANGED parseOp
    \/ InterpretStmt /\ ParseUnchanged /\ UNCHANGED parseOp
    \/ InterpretEnd /\ ParseUnchanged /\ UNCHANGED parseOp

SpecParse == InitParse /\ [][NextParse]_vars

-----------------------------------------------------------------------------
(* Properties of the parser, under SpecParse                               *)

Start == NewParser(tokens)

\* the errors of the declarations from p on, when parsing goes on with the
\* next declaration after each error
RECURSIVE ResumedErrors(_)
ResumedNext(stmt) ==
    IF stmt.res.ok THEN ResumedErrors(stmt.p)
    ELSE <<stmt.res.err>> \o ResumedErrors(stmt.p)

ResumedErrors(p) == IF IsEnd(p) THEN << >> ELSE ResumedNext(PDeclaration(p))

\* C16: parse_stmt reports the error of every malformed declaration, each
\* found by going on at the declaration where synchronize stopped after the
\* error before it, and the parse is marked failed exactly when there is one.
C16_ParseResumesAfterError ==
    parseOp.op = "parse_stmt" =>
        /\ parseOp.errors = ResumedErrors(Start)
        /\ parseOp.had_error <=> ResumedErrors(Start) # << >>

\* what parse_expr returns for `name = ...`, value being what it returns for
\* the tokens after the `=`
AssignOf(name, value) ==
    IF value.res.ok
    THEN Ok(AssignExpr(name.lexeme, name.line, value.res.v))
    ELSE value.res

\* what parse_expr returns when target, the expression parsed before a `=`,
\* is not a Variable
RejectsTarget(target) ==
    (target.res.ok /\ Check(target.p, {"EQUAL"}) /\ target.res.v.k # "Variable") =>
        /\ parseOp.res = ParseError("InvalidAssignmentTarget", Peek(target.p), "")
        /\ parseOp.errors = <<parseOp.res.err>>
        /\ parseOp.had_error

\* C18: `name = value` parses to the Assign of name and of what value
\* parses to (so that `a = b = 1` is Assign(a, Assign(b, 1))); when what
\* was parsed before `=` is not a Variable, parse_expr fails with
\* InvalidAssignmentTarget at that `=` token, whatever follows it.
C18_AssignmentParses ==
    parseOp.op = "parse_expr" =>
        /\ (Len(tokens) >= 3 /\ tokens[1].type = "IDENTIFIER"
                /\ tokens[2].type = "EQUAL") =>
                parseOp.res = AssignOf(tokens[1],
                                       ParseExpr(SubSeq(tokens, 3, Len(tokens))))
        /\ RejectsTarget(PBinary(Start, 1))
        /\ tokens = ScanTokens(RightAssociative) =>
                parseOp.res = Ok(AssignExpr("a", 1, AssignExpr("b", 3, Num(1))))

\* parse_expr has parsed `a = b = 1`
C18_Witness ==
    /\ parseOp.op = "parse_expr"
    /\ tokens = ScanTokens(RightAssociative)
    /\ parseOp.res.ok
    /\ parseOp.res.v.k = "Assign" /\ parseOp.res.v.value.k = "Assign"

\* the index of the EOF token in self.tokens
EndIndex == Len(tokens) - 1

\* C28: whatever parse_stmt and parse_expr do on a token list that ends
\* with EOF, the cursor stays between 0 and the index of the EOF token (it
\* only grows, so that every token peek read was inside the list), and
\* previous() has never been evaluated with current = 0.
C28_CursorInBounds ==
    parseOp.op \in {"parse_stmt", "parse_expr"} =>
        /\ tokens[Len(tokens)].type = "EOF"
        /\ 0 <= parseOp.current /\ parseOp.current <= EndIndex
        /\ ~parseOp.underflow

\* parse_stmt has failed on a list of at least two tokens with the cursor on
\* EOF: either the failing rule had consumed everything, or synchronize
\* skipped the rest, and its advance at EOF left the cursor where it was
C28_Witness ==
    /\ parseOp.op = "parse_stmt"
    /\ ~parseOp.res.ok
    /\ EndIndex >= 2
    /\ parseOp.current = EndIndex
    /\ parseOp.res.err.token.type = "EOF"

\* what a run of main leaves to see: the output, the bindings of the
\* outer (global) variables, and the error that ended it, if any
Observation(w, end) ==
    [output |-> w.out, globals |-> w.heap[Globals].values, end |-> end]

\* the world of Interpreter::default with the resolution table L
FirstWorld(L) ==
    [interp |-> [environment |-> Globals, globals |-> Globals, locals |-> L],
     heap |-> InitHeap, out |-> << >>, tr |-> {},
     clock |-> CHOOSE now \in ClockValues : TRUE]

\* main ended by exit(65) before interpret_stmt
StaticFailure == Observation(FirstWorld(EmptyLocals), <<[kind |-> "Static"]>>)

\* interpret_stmt: r is what its loop ended with
RunEnd(r) == Observation(r.w, IF r.res.ok THEN << >> ELSE <<r.res.err>>)

RunResolved(stmts, R) ==
    IF R.had_error THEN StaticFailure
    ELSE RunEnd(ExecuteStmts(FirstWorld(R.locals), stmts, 1))

RunParsed(parsed) ==
    IF parsed.had_error THEN StaticFailure
    ELSE RunResolved(parsed.res.v, Resolve(EmptyLocals, parsed.res.v))

\* main of quick-dev.rs on the tokens toks
Run(toks) == RunParsed(ParseStmt(toks))

\* C17: the run of `for (initializer; condition; increment) body` and the
\* run of `{ initializer; while (condition) { body increment; } }` print
\* the same, leave the same bindings of the outer variables and end with
\* the same error, whichever clauses are absent (an absent condition being
\* `true`); and the run the pipeline makes of the for source is that run.
C17_ForIsWhile ==
    \A c \in ForClauses :
        (parseOp.op = "parse_stmt" /\ tokens = ScanTokens(ForSource(c))) =>
            /\ Run(tokens) = Run(ScanTokens(WhileSource(c)))
            /\ Ended =>
                /\ output = Run(tokens).output
                /\ heap[Globals].values = Run(tokens).globals

\* C30: the Return signal never reaches Interpreter::error: of a program the
\* resolver accepted no statement ends interpret_stmt's loop with Return, and
\* no expression ends interpret_expr with it, so that main never panics on
\* the unreachable!() of the Return arm.
C30_ReturnNeverReachesError ==
    /\ pc # "panic"
    /\ had_runtime_error => pc = "exit70"

\* a statement of an accepted program has been run in which a call's body
\* ended with the Return signal
C30_Witness ==
    /\ resOp.op = "resolve" /\ ~resOp.had_error
    /\ pc \in {"interpret", "exit0"}
    /\ \E c \in Calls : ~c.body.ok /\ c.body.err.kind = "Return"

-----------------------------------------------------------------------------
(* SpecParseTurns: parse_stmt taken one turn of its loop at a time, and    *)
(* parse_expr. While parse_stmt runs, parseOp holds the parser and the     *)
(* statements pushed so far.                                               *)

\* parse_stmt up to its loop
ParseStmtBegin ==
    /\ pc = "parse"
    /\ parseOp' = [op |-> "parsing", p |-> NewParser(tokens), stmts |-> << >>]
    /\ pc' = "parsing"
    /\ UNCHANGED <<heap, program, index, locals, output, had_runtime_error, trace,
                   resOp>>

\* the match on what declaration returned: stmt
ParseStmtMatch(stmt) ==
    IF stmt.res.ok
    THEN /\ parseOp' = [parseOp EXCEPT !.p = stmt.p,
                                       !.stmts = Append(@, stmt.res.v)]
         /\ UNCHANGED <<pc, program>>
    ELSE ParseStmtResult([p |-> stmt.p, res |-> stmt.res, had_error |-> TRUE,
                          errors |-> <<stmt.res.err>>])

\* one turn of the loop of parse_stmt
ParseStmtTurn ==
    /\ pc = "parsing"
    /\ ~IsEnd(parseOp.p)
    /\ ParseStmtMatch(ParseStmtTurned(parseOp.p, PDeclaration(parseOp.p)))
    /\ UNCHANGED <<heap, index, locals, output, had_runtime_error, trace, resOp>>

\* the end of the loop, and Ok(stmts)
ParseStmtReturn ==
    /\ pc = "parsing"
    /\ IsEnd(parseOp.p)
    /\ ParseStmtResult([p |-> parseOp.p, res |-> Ok(parseOp.stmts),
                        had_error |-> FALSE, errors |-> << >>])
    /\ UNCHANGED <<heap, index, locals, output, had_runtime_error, trace, resOp>>

NextParseTurns ==
    \/ ParseStmtBegin /\ ParseUnchanged
    \/ ParseStmtTurn /\ ParseUnchanged
    \/ ParseStmtReturn /\ ParseUnchanged
    \/ ParseExpression /\ ParseUnchanged

SpecParseTurns == InitParse /\ [][NextParseTurns]_vars

\* what parse_stmt ended with is what ParseStmt computes in one go
TurnsMakeParseStmt ==
    parseOp.op = "parse_stmt" =>
        /\ parseOp.res = ParseStmt(tokens).res
        /\ parseOp.errors = ParseStmt(tokens).errors
        /\ parseOp.current = ParseStmt(tokens).p.current

\* the turns parse_stmt has made are no more than the tokens consumed, and
\* those no more than the tokens before EOF
TurnsBounded ==
    pc = "parsing" =>
        /\ Len(parseOp.stmts) <= parseOp.p.current
        /\ parseOp.p.current <= EndIndex

\* C29: on every token list that ends with EOF parse_stmt and parse_expr
\* come to an end: a turn of the declaration loop that does not end the loop
\* has consumed at least one token, so that the loop makes no more turns
\* than there are tokens before EOF, and no turn of the block, parameter,
\* argument, call and synchronize loops has gone into a next one without
\* having consumed a token.
C29_ParsingTerminates ==
    /\ [][(pc = "parsing" /\ pc' = "parsing") =>
              parseOp'.p.current > parseOp.p.current]_vars
    /\ []TurnsBounded
    /\ [](pc = "parsing" => ~parseOp.p.stalled)
    /\ [](parseOp.op \in {"parse_stmt", "parse_expr"} => ~parseOp.stalled)
    /\ []TurnsMakeParseStmt

\* parse_stmt has returned what it made of EveryLoop: two declarations, the
\* function with two parameters and a block of two statements, and the call
\* of a call with two arguments
C29_Witness ==
    /\ tokens = ScanTokens(EveryLoop)
    /\ parseOp.op = "parse_stmt"
    /\ parseOp.res.ok
    /\ Len(parseOp.res.v) = 2
    /\ parseOp.res.v[1].k = "Function"
    /\ Len(parseOp.res.v[1].params) = 2
    /\ Len(parseOp.res.v[1].body) = 2
    /\ parseOp.res.v[2].k = "Expression"
    /\ parseOp.res.v[2].e.k = "Call"
    /\ parseOp.res.v[2].e.callee.k = "Call"
    /\ Len(parseOp.res.v[2].e.callee.arguments) = 2
    /\ parseOp.current = EndIndex

-----------------------------------------------------------------------------
(* SpecValue: Value::calculate on operands drawn from every variant.       *)
(* valueOp holds the operands, and after an operation the operator, the    *)
(* Option<&Value> it was given and the result.                             *)

Values ==
    {Nil, Boolean(TRUE), Boolean(FALSE), Number(0), Number(1),
     String(""), String("a"), String("b"),
     BuiltIn("clock", 0), Function(FunctionStmt("f", << >>, << >>), Globals)}

\* The operators of calculate's match, and one of its `_` arm
Operators == {"-", "+", "/", "*", "!", "==", "!=", ">", ">=", "<", "<=", "and"}

InitValue ==
    /\ \E a \in Values, b \in Values :
            valueOp = [op |-> "none", left |-> a, right |-> b]
    /\ scanOp = NoOp /\ tokens = << >> /\ parseOp = NoOp
    /\ heap = EnvInitHeap /\ envOp = NoOp
    /\ scopes = << >> /\ locals = EmptyLocals /\ resOp = NoOp
    /\ program = << >> /\ pc = "value" /\ index = 0 /\ output = << >>
    /\ had_runtime_error = FALSE /\ trace = {}

ValueUnchanged ==
    UNCHANGED <<heap, envOp, scopes, locals, resOp, program, pc, index, output,
                had_runtime_error, trace, tokens, parseOp, scanOp>>

\* left.calculate(Some(&right), operator): Expr::Binary
CalculateBinary ==
    \E op \in Operators :
        valueOp' = [op |-> op, left |-> valueOp.left, right |-> valueOp.right,
                    other |-> <<valueOp.right>>,
                    res |-> Calculate(valueOp.left, <<valueOp.right>>, op)]

\* value.calculate(None, operator): Expr::Unary
CalculateUnary ==
    \E op \in Operators :
        valueOp' = [op |-> op, left |-> valueOp.left, right |-> valueOp.right,
                    other |-> << >>,
                    res |-> Calculate(valueOp.left, << >>, op)]

NextValue ==
    \/ CalculateBinary /\ ValueUnchanged
    \/ CalculateUnary /\ ValueUnchanged

SpecValue == InitValue /\ [][NextValue]_vars

\* The variant of a value: both kinds of function are Value::Callable
Variant(v) == IF v.t \in {"Function", "BuiltIn"} THEN "Callable" ELSE v.t

\* C22: is_equal is symmetric for every pair of values, reflexive for every
\* value (no NaN is among Values), Callable values included, and false for
\* values of different variants; == and != on two operands never fail and
\* != is the negation of ==.
C22_EqualitySymmetricReflexive ==
    (valueOp.op \in {"==", "!="} /\ valueOp.other # << >>) =>
        /\ valueOp.res.ok
        /\ valueOp.res.v =
                Boolean(IF valueOp.op = "=="
                        THEN IsEqual(valueOp.left, valueOp.right)
                        ELSE ~IsEqual(valueOp.left, valueOp.right))
        /\ IsEqual(valueOp.left, valueOp.right) = IsEqual(valueOp.right, valueOp.left)
        /\ Variant(valueOp.left) # Variant(valueOp.right) =>
                ~IsEqual(valueOp.left, valueOp.right)
        /\ valueOp.left = valueOp.right => IsEqual(valueOp.left, valueOp.right)

\* C23: + yields the sum of two Numbers and the concatenation, left then
\* right, of two Strings; every other pairing of operands fails with
\* MustBeNumberOrString.
C23_PlusNumbersOrStrings ==
    (valueOp.op = "+" /\ valueOp.other # << >>) =>
        CASE valueOp.left.t = "Number" /\ valueOp.right.t = "Number" ->
                valueOp.res = Ok(Number(valueOp.left.n + valueOp.right.n))
          [] valueOp.left.t = "String" /\ valueOp.right.t = "String" ->
                valueOp.res = Ok(String(valueOp.left.s \o valueOp.right.s))
          [] OTHER -> valueOp.res = ValueError("MustBeNumberOrString")

\* C24: !x never fails and yields true exactly when x is Nil or false, and
\* false for every other value (0, "" and Callables included); ! with a
\* second operand is an error.
C24_BangIsNotTruthy ==
    valueOp.op = "!" =>
        IF valueOp.other = << >>
        THEN valueOp.res =
                Ok(Boolean(valueOp.left = Nil \/ valueOp.left = Boolean(FALSE)))
        ELSE ~valueOp.res.ok

\* !0 has been computed
C24_Witness ==
    /\ valueOp.op = "!" /\ valueOp.other = << >>
    /\ valueOp.left = Number(0)
    /\ valueOp.res = Ok(Boolean(FALSE))

-----------------------------------------------------------------------------
(* Scanner: scanner.rs, extensions/text_ext.rs. The source is a sequence   *)
(* of characters, indexed from 0 as in the code; NUL is the character '\0'. *)
(* A scanner is [source, start, current, line, tokens, had_error], with    *)
(* two records of what it did: spans, the [start, current) of each token   *)
(* added, and errors, the reports made.                                    *)

NUL == "NUL"

DigitChars == {"0", "1", "2", "3", "4", "5", "6", "7", "8", "9"}

AlphaChars ==
    {"a", "b", "c", "d", "e", "f", "g", "h", "i", "j", "k", "l", "m", "n", "o",
     "p", "q", "r", "s", "t", "u", "v", "w", "x", "y", "z",
     "A", "B", "C", "D", "E", "F", "G", "H", "I", "J", "K", "L", "M", "N", "O",
     "P", "Q", "R", "S", "T", "U", "V", "W", "X", "Y", "Z", "_"}

IsAlpha(c) == c \in AlphaChars
IsAlphaNumeric(c) == c \in DigitChars \/ IsAlpha(c)

CharAt(source, i) == IF i < Len(source) THEN source[i + 1] ELSE NUL

Substring(source, start, end) ==
    SubSeq(source, start + 1, IF end < Len(source) THEN end ELSE Len(source))

\* The String collected from characters
RECURSIVE Collect(_)
Collect(chars) == IF chars = << >> THEN "" ELSE Head(chars) \o Collect(Tail(chars))

DigitValue ==
    ("0" :> 0) @@ ("1" :> 1) @@ ("2" :> 2) @@ ("3" :> 3) @@ ("4" :> 4)
    @@ ("5" :> 5) @@ ("6" :> 6) @@ ("7" :> 7) @@ ("8" :> 8) @@ ("9" :> 9)

RECURSIVE WholePart(_, _)
WholePart(chars, n) ==
    IF chars = << >> \/ Head(chars) = "." THEN n
    ELSE WholePart(Tail(chars), 10 * n + DigitValue[Head(chars)])

RECURSIVE FractionDigits(_)
FractionDigits(chars) ==
    IF chars = << >> THEN << >>
    ELSE IF Head(chars) = "." THEN Tail(chars)
    ELSE FractionDigits(Tail(chars))

\* value.parse::<f64>() of digits with an optional fraction: the whole part
\* as a number, the digits of the fraction kept beside it
ParseF64(chars) ==
    IF FractionDigits(chars) = << >> THEN Number(WholePart(chars, 0))
    ELSE [t |-> "Number", n |-> WholePart(chars, 0),
          fraction |-> FractionDigits(chars)]

NewScanner(source) ==
    [source |-> source, start |-> 0, current |-> 0, line |-> 1, tokens |-> << >>,
     had_error |-> FALSE, spans |-> << >>, errors |-> << >>]

\* An error report that also adds a token for the offending characters
ScannerErrorToken(sc, message) ==
    [sc EXCEPT !.had_error = TRUE,
               !.errors = Append(@, [line |-> sc.line, message |-> message,
                                     span |-> <<sc.start, sc.current>>]),
               !.tokens = Append(@, Token("ERROR", "", None, sc.line)),
               !.spans = Append(@, <<sc.start, sc.current>>)]

ScannerError(sc, message) ==
    [sc EXCEPT !.had_error = TRUE,
               !.errors = Append(@, [line |-> sc.line, message |-> message,
                                     span |-> <<sc.start, sc.current>>])]

ScannerIsEnd(sc) == sc.current >= Len(sc.source)

ScannerAdvance(sc) == [sc EXCEPT !.current = @ + 1]

ScannerPeek(sc) == IF ScannerIsEnd(sc) THEN NUL ELSE CharAt(sc.source, sc.current)

PeekNext(sc) ==
    IF sc.current + 1 >= Len(sc.source) THEN NUL
    ELSE CharAt(sc.source, sc.current + 1)

AddTokenLiteral(sc, type, literal) ==
    [sc EXCEPT !.tokens = Append(@, Token(type,
                                Collect(Substring(sc.source, sc.start, sc.current)),
                                literal, sc.line)),
               !.spans = Append(@, <<sc.start, sc.current>>)]

AddToken(sc, type) == AddTokenLiteral(sc, type, None)

\* expect: whether c is next, and the scanner after it
Expect(sc, c) ==
    IF ScannerIsEnd(sc) THEN [ok |-> FALSE, sc |-> sc]
    ELSE IF CharAt(sc.source, sc.current) # c THEN [ok |-> FALSE, sc |-> sc]
    ELSE [ok |-> TRUE, sc |-> ScannerAdvance(sc)]

\* The arms of scan_token that look for a following '='
OneOrTwo(e, two, one) == AddToken(e.sc, IF e.ok THEN two ELSE one)

RECURSIVE CommentLoop(_)
CommentLoop(sc) ==
    IF CharAt(sc.source, sc.current) # "\n" /\ ~ScannerIsEnd(sc)
    THEN CommentLoop(ScannerAdvance(sc))
    ELSE sc

SlashOrComment(e) == IF e.ok THEN CommentLoop(e.sc) ELSE AddToken(e.sc, "SLASH")

RECURSIVE IdentifierLoop(_)
IdentifierLoop(sc) ==
    IF IsAlphaNumeric(ScannerPeek(sc)) THEN IdentifierLoop(ScannerAdvance(sc)) ELSE sc

IdentifierEnd(sc, lexeme) ==
    AddToken(sc, IF lexeme \in DOMAIN Keywords THEN Keywords[lexeme]
                 ELSE "IDENTIFIER")

Identifier(sc) ==
    IdentifierEnd(IdentifierLoop(sc),
                  Collect(Substring(sc.source, sc.start, IdentifierLoop(sc).current)))

RECURSIVE DigitsLoop(_)
DigitsLoop(sc) ==
    IF ScannerPeek(sc) \in DigitChars THEN DigitsLoop(ScannerAdvance(sc)) ELSE sc

FractionalPart(sc) ==
    IF ScannerPeek(sc) = "." /\ PeekNext(sc) \in DigitChars
    THEN DigitsLoop(ScannerAdvance(sc))
    ELSE sc

NumberEnd(sc) ==
    AddTokenLiteral(sc, "NUMBER",
                    ParseF64(Substring(sc.source, sc.start, sc.current)))

ScanNumber(sc) == NumberEnd(FractionalPart(DigitsLoop(sc)))

RECURSIVE StringLoop(_)
StringLoop(sc) ==
    IF ScannerPeek(sc) # "\"" /\ ~ScannerIsEnd(sc)
    THEN StringLoop(ScannerAdvance(
            IF ScannerPeek(sc) = "\n" THEN [sc EXCEPT !.line = @ + 1] ELSE sc))
    ELSE sc

StringEnd(sc) ==
    IF ScannerIsEnd(sc) THEN ScannerError(sc, <<"Unterminated string.">>)
    ELSE AddTokenLiteral(ScannerAdvance(sc), "STRING",
            String(Collect(Substring(sc.source, sc.start + 1, sc.current))))

ScanString(sc) == StringEnd(StringLoop(sc))

SingleCharTokens ==
    ("(" :> "LEFT_PAREN") @@ (")" :> "RIGHT_PAREN") @@ ("{" :> "LEFT_BRACE")
    @@ ("}" :> "RIGHT_BRACE") @@ ("," :> "COMMA") @@ ("." :> "DOT")
    @@ ("-" :> "MINUS") @@ ("+" :> "PLUS") @@ (";" :> "SEMICOLON")
    @@ ("*" :> "STAR")

\* scan_token after `let c = self.advance()`
ScanChar(sc, c) ==
    CASE c \in DOMAIN SingleCharTokens -> AddToken(sc, SingleCharTokens[c])
      [] c = "!" -> OneOrTwo(Expect(sc, "="), "BANG_EQUAL", "BANG")
      [] c = "=" -> OneOrTwo(Expect(sc, "="), "EQUAL_EQUAL", "EQUAL")
      [] c = "<" -> OneOrTwo(Expect(sc, "="), "LESS_EQUAL", "LESS")
      [] c = ">" -> OneOrTwo(Expect(sc, "="), "GREATER_EQUAL", "GREATER")
      [] c = "/" -> SlashOrComment(Expect(sc, "/"))
      [] c \in {NUL, " ", "\r", "\t"} -> sc
      [] c = "\n" -> [sc EXCEPT !.line = @ + 1]
      [] c = "\"" -> ScanString(sc)
      [] c \in DigitChars -> ScanNumber(sc)
      [] IsAlpha(c) -> Identifier(sc)
      [] OTHER -> ScannerError(sc, <<"Unexpected character: ", c>>)

ScannerScanToken(sc) == ScanChar(ScannerAdvance(sc), CharAt(sc.source, sc.current))

-----------------------------------------------------------------------------
(* SpecScan: Scanner::from_source(source).scan_tokens(), one turn of its   *)
(* loop at a time, on every short source over a few characters and on      *)
(* some longer ones. scanOp is the Scanner.                                *)

MaxSource == 4

SourceChars == {"a", "1", ".", "\"", "/", "\n", "=", "$"}

RECURSIVE TextsOfLength(_)
TextsOfLength(n) ==
    IF n = 0 THEN {<< >>}
    ELSE {Append(t, c) : t \in TextsOfLength(n - 1), c \in SourceChars}

HandTexts ==
    {<<"o", "r", " ", "\"", "a", "\"", "$", "1", ".", "1", "/", "/", "x", "\n", "(">>,
     <<"v", "a", "r", " ", "_", "x", "1", "!", "=", "<", "=", "#", ">", "\t", "\r">>,
     <<"(", "\"", "a", "\n", "b">>,
     <<"1", ".", "a", "/", "2", NUL, "@", ";">>}

SourceTexts == UNION {TextsOfLength(n) : n \in 0..MaxSource} \cup HandTexts

InitScan ==
    /\ \E source \in SourceTexts : scanOp = NewScanner(source)
    /\ pc = "scan"
    /\ valueOp = NoOp /\ tokens = << >> /\ parseOp = NoOp
    /\ heap = EnvInitHeap /\ envOp = NoOp
    /\ scopes = << >> /\ locals = EmptyLocals /\ resOp = NoOp
    /\ program = << >> /\ index = 0 /\ output = << >>
    /\ had_runtime_error = FALSE /\ trace = {}

ScanUnchanged ==
    UNCHANGED <<heap, envOp, scopes, locals, resOp, program, index, output,
                had_runtime_error, trace, tokens, parseOp, valueOp>>

\* One turn of scan_tokens' loop
ScanTokensTurn ==
    /\ pc = "scan"
    /\ ~ScannerIsEnd(scanOp)
    /\ scanOp' = ScannerScanToken([scanOp EXCEPT !.start = scanOp.current])
    /\ pc' = pc

\* The end of scan_tokens
ScanTokensEnd ==
    /\ pc = "scan"
    /\ ScannerIsEnd(scanOp)
    /\ scanOp' = [scanOp EXCEPT !.tokens = Append(@, Token("EOF", "", None, scanOp.line))]
    /\ pc' = "scanned"

NextScan ==
    \/ ScanTokensTurn /\ ScanUnchanged
    \/ ScanTokensEnd /\ ScanUnchanged

SpecScan == InitScan /\ [][NextScan]_vars /\ WF_vars(NextScan)

\* The characters scan_token has an arm for
KnownChars ==
    DOMAIN SingleCharTokens \cup {"!", "=", "<", ">", "/", "\"", NUL, " ", "\r", "\t", "\n"}
    \cup DigitChars \cup AlphaChars

Occurrences(source, c) == Cardinality({i \in 1..Len(source) : source[i] = c})

\* What scan_tokens leaves behind: exactly one EOF, in the last place; one
\* non-empty stretch of the source per token, the stretches in source order
\* and apart from the stretches reported as errors; had_error if and only if
\* an error was reported
ScannedWell(sc) ==
    /\ sc.tokens # << >>
    /\ sc.tokens[Len(sc.tokens)].type = "EOF"
    /\ \A i \in 1..(Len(sc.tokens) - 1) : sc.tokens[i].type # "EOF"
    /\ Len(sc.spans) = Len(sc.tokens) - 1
    /\ \A i \in 1..Len(sc.spans) :
        /\ sc.spans[i][1] < sc.spans[i][2] /\ sc.spans[i][2] <= Len(sc.source)
        /\ sc.tokens[i].lexeme =
                Collect(Substring(sc.source, sc.spans[i][1], sc.spans[i][2]))
        /\ sc.tokens[i].line <= sc.tokens[i + 1].line
        /\ i < Len(sc.spans) => sc.spans[i][2] <= sc.spans[i + 1][1]
        /\ \A e \in 1..Len(sc.errors) :
                \/ sc.spans[i][2] <= sc.errors[e].span[1]
                \/ sc.errors[e].span[2] <= sc.spans[i][1]
    /\ sc.had_error <=> sc.errors # << >>
    /\ Occurrences(sc.source, "\"") = 0 /\ Occurrences(sc.source, "/") = 0 =>
            (sc.had_error <=> \E i \in 1..Len(sc.source) : sc.source[i] \notin KnownChars)
    /\ Occurrences(sc.source, "\"") % 2 = 1 /\ Occurrences(sc.source, "/") = 0 =>
            sc.had_error

\* C25: for every source scan_tokens terminates, and its token list holds
\* exactly one EOF token, as its last element, also after lexical errors:
\* then had_error is set, the offending characters produce no token and the
\* other tokens are emitted in source order.
C25_ScanEndsWithOneEOF ==
    /\ <>(pc = "scanned")
    /\ [](pc = "scanned" => ScannedWell(scanOp))

\* A scan that reported an error and emitted a token for what follows it
C25_Witness ==
    /\ pc = "scanned"
    /\ scanOp.had_error
    /\ \E e \in 1..Len(scanOp.errors), i \in 1..Len(scanOp.spans) :
            scanOp.errors[e].span[2] <= scanOp.spans[i][1]
    /\ \E i \in 1..Len(scanOp.spans) : scanOp.spans[i][2] <= scanOp.errors[1].span[1]

====
